---- MODULE Spec2Model ----
(***************************************************************************)
(* Verification model of the daemon toolkit core:                          *)
(*   - DockerManager      (src/src/services/docker/docker-manager.ts)      *)
(*   - CommandExecutor    (src/src/shared/errors/detection.error.ts)       *)
(*   - FrameworkDetector  (src/src/services/detection/framework-detector.ts)*)
(* Each component has its own specification over its own variables; the    *)
(* variables of the other components stay at their initial value.          *)
(***************************************************************************)
EXTENDS Integers, Sequences, FiniteSets, TLC

(***************************************************************************)
(* Bounds                                                                  *)
(***************************************************************************)
\* number of changes other actors may make to the container engine
MaxExt == 1

(***************************************************************************)
(* DockerManager: state                                                    *)
(***************************************************************************)
VARIABLES
  engineUp,     \* the docker daemon answers `docker info`
  imageBuilt,   \* `docker images -q <image>` prints an id
  container,    \* state of the named container in the engine
  epoch,        \* number of changes made by other actors so far
  active,       \* callers allowed to invoke operations
  pc,           \* per caller: the await the call is suspended at
  op,           \* per caller: the public method being run
  args,         \* per caller: argument of the method (remove's force flag)
  stack,        \* per caller: frames of the methods that called the current one
  trace,        \* per caller: engine commands and callbacks of the current call
  outcome,      \* per caller: how the current call ended
  startEpoch,   \* per caller: epoch when the current call began
  startState,   \* per caller: the engine as the current call found it
  prev          \* per caller: the call that completed before the current one

dockerVars == <<engineUp, imageBuilt, container, epoch, active, pc, op, args,
                stack, trace, outcome, startEpoch, startState, prev>>

Callers == {"A", "B"}

ContainerStates == {"absent", "stopped", "running"}

Ops == {"setup", "start", "create", "stop", "remove", "exec", "getLogs"}

\* the DockerExecResult of a call that is not a completed exec
NoExecResult ==
  [success |-> FALSE, stdout |-> {}, stderr |-> {}, exitCode |-> {}, duration |-> {}]

\* kind: "returned" or "thrown"; value: the value returned or the class of the
\* error thrown; path, reason: first and second argument of the constructor
\* of ImageBuildError, reason: second argument of ContainerStartError;
\* dispatched: what the engine did with the command exec or getLogs dispatched
NoOutcome ==
  [kind |-> "none", value |-> "none", exitCode |-> 0, path |-> "none",
   reason |-> "none", result |-> NoExecResult, dispatched |-> "none"]

NoPrev == [op |-> "none", outcome |-> NoOutcome, epoch |-> 0, trace |-> <<>>]

\* engine commands that change the engine's images or containers
MutatingCommands == {"build", "run", "start", "stop", "rm"}

(***************************************************************************)
(* DockerManager: probes.  Each is one executor call; a probe against an   *)
(* unreachable engine fails and so answers false.                          *)
(***************************************************************************)
isRunning == engineUp

isImageBuilt == engineUp /\ imageBuilt

isContainerRunning == engineUp /\ container = "running"

containerExists == engineUp /\ container # "absent"

\* the engine as a call finds it: its state and what the probes answer
EngineSnapshot ==
  [engineUp |-> engineUp, imageBuilt |-> imageBuilt, container |-> container,
   isContainerRunning |-> isContainerRunning, containerExists |-> containerExists]

NoSnapshot ==
  [engineUp |-> FALSE, imageBuilt |-> FALSE, container |-> "absent",
   isContainerRunning |-> FALSE, containerExists |-> FALSE]

(***************************************************************************)
(* DockerManager: call bookkeeping                                         *)
(***************************************************************************)
Log(c, events) == trace' = [trace EXCEPT ![c] = @ \o events]

\* value the public method returns when the innermost frame returns normally
RECURSIVE ReturnValue(_)
ReturnValue(s) ==
  IF s = <<>> THEN "void"
  ELSE IF Head(s) = "setup_started" THEN "started"
  ELSE IF Head(s) = "setup_created" THEN "created"
  ELSE ReturnValue(Tail(s))

Finish(c, kind, value) ==
  /\ pc' = [pc EXCEPT ![c] = "done"]
  /\ outcome' = [outcome EXCEPT ![c] =
                   [NoOutcome EXCEPT !.kind = kind, !.value = value]]
  /\ stack' = [stack EXCEPT ![c] = <<>>]

\* the innermost frame returns; every caller frame returns right after it
Return(c) == Finish(c, "returned", ReturnValue(stack[c]))

\* no frame between the throw and the public method catches
Throw(c, error) == Finish(c, "thrown", error)

\* `throw new ContainerStartError(containerName, reason)`
ThrowStartError(c, reason) ==
  /\ pc' = [pc EXCEPT ![c] = "done"]
  /\ outcome' = [outcome EXCEPT ![c] =
                   [NoOutcome EXCEPT !.kind = "thrown", !.value = "ContainerStartError",
                                     !.reason = reason]]
  /\ stack' = [stack EXCEPT ![c] = <<>>]

\* `throw new ImageBuildError(buildPath, buildReason)`
ThrowBuildError(c, buildPath, buildReason) ==
  /\ pc' = [pc EXCEPT ![c] = "done"]
  /\ outcome' = [outcome EXCEPT ![c] =
                   [NoOutcome EXCEPT !.kind = "thrown", !.value = "ImageBuildError",
                                     !.path = buildPath, !.reason = buildReason]]
  /\ stack' = [stack EXCEPT ![c] = <<>>]

Goto(c, label) ==
  /\ pc' = [pc EXCEPT ![c] = label]
  /\ UNCHANGED <<outcome, stack>>

Call(c, frame, label) ==
  /\ pc' = [pc EXCEPT ![c] = label]
  /\ stack' = [stack EXCEPT ![c] = <<frame>> \o @]
  /\ UNCHANGED outcome

FirstLabel(o) ==
  CASE o = "setup"  -> "setup_isRunning"
    [] o = "start"  -> "start_isContainerRunning"
    [] o = "create" -> "create_containerExists"
    [] o = "stop"   -> "stop_isContainerRunning"
    [] o = "remove" -> "remove_containerExists"
    [] o = "exec"   -> "exec_isContainerRunning"
    [] o = "getLogs" -> "getLogs_dockerLogs"

\* a caller invokes a public method of the manager
Invoke(c, o, force) ==
  /\ c \in active
  /\ pc[c] \in {"idle", "done"}
  /\ op' = [op EXCEPT ![c] = o]
  /\ args' = [args EXCEPT ![c] = force]
  /\ pc' = [pc EXCEPT ![c] = FirstLabel(o)]
  /\ stack' = [stack EXCEPT ![c] = <<>>]
  /\ trace' = [trace EXCEPT ![c] = <<>>]
  /\ outcome' = [outcome EXCEPT ![c] = NoOutcome]
  /\ startEpoch' = [startEpoch EXCEPT ![c] = epoch]
  /\ startState' = [startState EXCEPT ![c] = EngineSnapshot]
  /\ prev' = [prev EXCEPT ![c] =
                IF pc[c] = "done"
                THEN [op |-> op[c], outcome |-> outcome[c],
                      epoch |-> startEpoch[c], trace |-> trace[c]]
                ELSE NoPrev]
  /\ UNCHANGED <<engineUp, imageBuilt, container, epoch, active>>

(***************************************************************************)
(* DockerManager.setup                                                     *)
(***************************************************************************)
\* variant: setup goes on when the engine does not answer
setup_isRunning_proceed(c) ==
  /\ pc[c] = "setup_isRunning"
  /\ Log(c, <<"info">>)
  /\ Goto(c, "setup_isImageBuilt")
  /\ UNCHANGED <<engineUp, imageBuilt, container, epoch, active, op, args, startEpoch, startState, prev>>

setup_isRunning(c) ==
  /\ pc[c] = "setup_isRunning"
  /\ Log(c, <<"info">>)
  /\ IF isRunning
     THEN Goto(c, "setup_isImageBuilt")
     ELSE Throw(c, "DockerDaemonUnavailableError")
  /\ UNCHANGED <<engineUp, imageBuilt, container, epoch, active, op, args, startEpoch, startState, prev>>

setup_isImageBuilt(c) ==
  /\ pc[c] = "setup_isImageBuilt"
  /\ IF isImageBuilt
     THEN /\ Log(c, <<"images">>)
          /\ Goto(c, "setup_isContainerRunning")
     ELSE /\ Log(c, <<"images", "onBuildStart">>)
          /\ Goto(c, "setup_build")
  /\ UNCHANGED <<engineUp, imageBuilt, container, epoch, active, op, args, startEpoch, startState, prev>>

\* what setup does once build() has resolved: onBuildComplete is called
\* inside the try block, so an error it throws reaches the catch clause,
\* which calls onBuildError with it and rethrows it
setup_afterBuild(c) ==
  \E completeThrows \in BOOLEAN :
    IF completeThrows
    THEN /\ Log(c, <<"build", "onBuildComplete", "onBuildError">>)
         /\ Throw(c, "CallbackError")
    ELSE /\ Log(c, <<"build", "onBuildComplete">>)
         /\ Finish(c, "returned", "built")

\* variant: a failed build is reported as a status
setup_build_status(c) ==
  /\ pc[c] = "setup_build"
  /\ \E ok \in {b \in BOOLEAN : b => engineUp} :
       IF ok
       THEN /\ imageBuilt' = TRUE
            /\ setup_afterBuild(c)
       ELSE /\ imageBuilt' = imageBuilt
            /\ Log(c, <<"build", "onBuildError">>)
            /\ Finish(c, "returned", "failed")
  /\ UNCHANGED <<engineUp, container, epoch, active, op, args, startEpoch, startState, prev>>

\* build() inside setup's try block; ok is the result of `docker build`; a
\* failure is rethrown by build as ImageBuildError(buildContext, message)
setup_build(c) ==
  /\ pc[c] = "setup_build"
  /\ \E ok \in {b \in BOOLEAN : b => engineUp} :
       IF ok
       THEN /\ imageBuilt' = TRUE
            /\ setup_afterBuild(c)
       ELSE /\ imageBuilt' = imageBuilt
            /\ Log(c, <<"build", "onBuildError">>)
            /\ ThrowBuildError(c, "buildContext", "error.message")
  /\ UNCHANGED <<engineUp, container, epoch, active, op, args, startEpoch, startState, prev>>

\* variant: setup without the early return for a running container
setup_isContainerRunning_noreturn(c) ==
  /\ pc[c] = "setup_isContainerRunning"
  /\ Log(c, <<"ps">>)
  /\ Goto(c, "setup_containerExists")
  /\ UNCHANGED <<engineUp, imageBuilt, container, epoch, active, op, args, startEpoch, startState, prev>>

setup_isContainerRunning(c) ==
  /\ pc[c] = "setup_isContainerRunning"
  /\ Log(c, <<"ps">>)
  /\ IF isContainerRunning
     THEN Finish(c, "returned", "running")
     ELSE Goto(c, "setup_containerExists")
  /\ UNCHANGED <<engineUp, imageBuilt, container, epoch, active, op, args, startEpoch, startState, prev>>

setup_containerExists(c) ==
  /\ pc[c] = "setup_containerExists"
  /\ Log(c, <<"ps_a">>)
  /\ IF containerExists
     THEN Call(c, "setup_started", "start_isContainerRunning")
     ELSE Call(c, "setup_created", "create_containerExists")
  /\ UNCHANGED <<engineUp, imageBuilt, container, epoch, active, op, args, startEpoch, startState, prev>>

(***************************************************************************)
(* DockerManager.start                                                     *)
(***************************************************************************)
\* variant: start without the early return
start_isContainerRunning_always(c) ==
  /\ pc[c] = "start_isContainerRunning"
  /\ Log(c, <<"ps">>)
  /\ Goto(c, "start_containerExists")
  /\ UNCHANGED <<engineUp, imageBuilt, container, epoch, active, op, args, startEpoch, startState, prev>>

start_isContainerRunning(c) ==
  /\ pc[c] = "start_isContainerRunning"
  /\ Log(c, <<"ps">>)
  /\ IF isContainerRunning
     THEN Return(c)
     ELSE Goto(c, "start_containerExists")
  /\ UNCHANGED <<engineUp, imageBuilt, container, epoch, active, op, args, startEpoch, startState, prev>>

\* variant: start never delegates to create
start_containerExists_nocreate(c) ==
  /\ pc[c] = "start_containerExists"
  /\ Log(c, <<"ps_a">>)
  /\ Goto(c, "start_dockerStart")
  /\ UNCHANGED <<engineUp, imageBuilt, container, epoch, active, op, args, startEpoch, startState, prev>>

start_containerExists(c) ==
  /\ pc[c] = "start_containerExists"
  /\ Log(c, <<"ps_a">>)
  /\ IF ~containerExists
     THEN Call(c, "start", "create_containerExists")
     ELSE Goto(c, "start_dockerStart")
  /\ UNCHANGED <<engineUp, imageBuilt, container, epoch, active, op, args, startEpoch, startState, prev>>

start_dockerStart(c) ==
  /\ pc[c] = "start_dockerStart"
  /\ Log(c, <<"start">>)
  /\ \E ok \in {b \in BOOLEAN : b => (engineUp /\ container # "absent")} :
       IF ok
       THEN /\ container' = "running"
            /\ Return(c)
       ELSE /\ container' = container
            /\ ThrowStartError(c, "error.message")
  /\ UNCHANGED <<engineUp, imageBuilt, epoch, active, op, args, startEpoch, startState, prev>>

(***************************************************************************)
(* DockerManager.create                                                    *)
(***************************************************************************)
\* variant: create without the existence check
create_containerExists_unchecked(c) ==
  /\ pc[c] = "create_containerExists"
  /\ Log(c, <<"ps_a">>)
  /\ Goto(c, "create_dockerRun")
  /\ UNCHANGED <<engineUp, imageBuilt, container, epoch, active, op, args, startEpoch, startState, prev>>

create_containerExists(c) ==
  /\ pc[c] = "create_containerExists"
  /\ Log(c, <<"ps_a">>)
  /\ IF containerExists
     THEN Throw(c, "ContainerAlreadyExistsError")
     ELSE Goto(c, "create_dockerRun")
  /\ UNCHANGED <<engineUp, imageBuilt, container, epoch, active, op, args, startEpoch, startState, prev>>

\* `docker run -d --name <name> <image>`: refused when the name is taken or
\* the image is missing
create_dockerRun(c) ==
  /\ pc[c] = "create_dockerRun"
  /\ Log(c, <<"run">>)
  /\ \E ok \in {b \in BOOLEAN : b => (engineUp /\ imageBuilt /\ container = "absent")} :
       IF ok
       THEN /\ container' = "running"
            /\ Return(c)
       ELSE /\ container' = container
            /\ ThrowBuildError(c, "imageName", "Container creation failed: error.message")
  /\ UNCHANGED <<engineUp, imageBuilt, epoch, active, op, args, startEpoch, startState, prev>>

(***************************************************************************)
(* DockerManager.stop / remove                                             *)
(***************************************************************************)
stop_isContainerRunning(c) ==
  /\ pc[c] = "stop_isContainerRunning"
  /\ Log(c, <<"ps">>)
  /\ IF ~isContainerRunning
     THEN Return(c)
     ELSE Goto(c, "stop_dockerStop")
  /\ UNCHANGED <<engineUp, imageBuilt, container, epoch, active, op, args, startEpoch, startState, prev>>

\* variant: a failed `docker stop` propagates
stop_dockerStop_propagate(c) ==
  /\ pc[c] = "stop_dockerStop"
  /\ Log(c, <<"stop">>)
  /\ \E ok \in {b \in BOOLEAN : b => (engineUp /\ container = "running")} :
       IF ok
       THEN /\ container' = "stopped"
            /\ Return(c)
       ELSE /\ container' = container
            /\ Throw(c, "CommandFailedError")
  /\ UNCHANGED <<engineUp, imageBuilt, epoch, active, op, args, startEpoch, startState, prev>>

\* a failed `docker stop` is logged and swallowed
stop_dockerStop(c) ==
  /\ pc[c] = "stop_dockerStop"
  /\ Log(c, <<"stop">>)
  /\ \E ok \in {b \in BOOLEAN : b => (engineUp /\ container = "running")} :
       container' = IF ok THEN "stopped" ELSE container
  /\ Return(c)
  /\ UNCHANGED <<engineUp, imageBuilt, epoch, active, op, args, startEpoch, startState, prev>>

remove_containerExists(c) ==
  /\ pc[c] = "remove_containerExists"
  /\ Log(c, <<"ps_a">>)
  /\ IF ~containerExists
     THEN Return(c)
     ELSE Goto(c, "remove_dockerRm")
  /\ UNCHANGED <<engineUp, imageBuilt, container, epoch, active, op, args, startEpoch, startState, prev>>

\* `docker rm` refuses a running container unless -f is given; a failure is
\* logged and swallowed
remove_dockerRm(c) ==
  /\ pc[c] = "remove_dockerRm"
  /\ Log(c, <<"rm">>)
  /\ \E ok \in {b \in BOOLEAN :
                  b => (engineUp /\ container # "absent"
                        /\ (args[c] \/ container = "stopped"))} :
       container' = IF ok THEN "absent" ELSE container
  /\ Return(c)
  /\ UNCHANGED <<engineUp, imageBuilt, epoch, active, op, args, startEpoch, startState, prev>>

(***************************************************************************)
(* DockerManager.exec                                                      *)
(***************************************************************************)
\* variant: exec dispatches without the running check
exec_isContainerRunning_unchecked(c) ==
  /\ pc[c] = "exec_isContainerRunning"
  /\ Log(c, <<"ps">>)
  /\ Goto(c, "exec_dockerExec")
  /\ UNCHANGED <<engineUp, imageBuilt, container, epoch, active, op, args, startEpoch, startState, prev>>

exec_isContainerRunning(c) ==
  /\ pc[c] = "exec_isContainerRunning"
  /\ Log(c, <<"ps">>)
  /\ IF ~isContainerRunning
     THEN ThrowStartError(c, "Container is not running")
     ELSE Goto(c, "exec_dockerExec")
  /\ UNCHANGED <<engineUp, imageBuilt, container, epoch, active, op, args, startEpoch, startState, prev>>

\* a value that may be null or undefined: the empty set, or the value alone
None == {}

Some(v) == {v}

\* x ?? d
Coalesce(x, d) == IF x = None THEN d ELSE CHOOSE v \in x : TRUE

\* what the engine does with a dispatched `docker exec`: the inner command
\* exited 0, exited non-zero, ran past the timeout, or the container could not
\* be reached
ExecResults == {"ok", "nonzero", "timeout", "unreachable"}

\* the Result executeSingle resolves with.  A rejected child process becomes
\* CommandTimeoutError(exitCode null) when the time limit passed, otherwise
\* CommandFailedError(exitCode ?? -1) with exitCode null
ExecutorResult(r) ==
  CASE r = "ok" ->
         [success |-> TRUE,
          data |-> Some([stdout |-> Some("stdout"), stderr |-> Some("stderr"),
                         exitCode |-> Some(0)]),
          error |-> None]
    [] r = "timeout" ->
         [success |-> FALSE, data |-> None,
          error |-> Some([name |-> "CommandTimeoutError", exitCode |-> None,
                          stdout |-> Some(""), stderr |-> Some(""),
                          message |-> Some("Command timed out")])]
    [] OTHER ->
         [success |-> FALSE, data |-> None,
          error |-> Some([name |-> "CommandFailedError", exitCode |-> Some(-1),
                          stdout |-> Some("stdout"), stderr |-> Some("stderr"),
                          message |-> Some("Command failed with exit code -1")])]

\* variant: the exit code is copied without a default
exec_exitCode_raw(result) ==
  IF result.success /\ result.data # None
  THEN Coalesce(result.data, NoExecResult).exitCode
  ELSE Coalesce(result.error, NoExecResult).exitCode

\* exitCode of the DockerExecResult: data.exitCode ?? 0 on the success branch,
\* error?.exitCode ?? 1 on the other
exec_exitCode(result) ==
  IF result.success /\ result.data # None
  THEN Some(Coalesce(Coalesce(result.data, NoExecResult).exitCode, 0))
  ELSE IF result.error = None THEN Some(1)
  ELSE Some(Coalesce(Coalesce(result.error, NoExecResult).exitCode, 1))

\* the DockerExecResult exec builds from the executor's Result
exec_result(result) ==
  IF result.success /\ result.data # None
  THEN LET data == Coalesce(result.data, NoExecResult)
       IN [success |-> TRUE, stdout |-> data.stdout, stderr |-> data.stderr,
           exitCode |-> exec_exitCode(result), duration |-> Some("ms")]
  ELSE [success |-> FALSE,
        stdout |-> IF result.data = None THEN Some("")
                   ELSE Some(Coalesce(Coalesce(result.data, NoExecResult).stdout, "")),
        stderr |-> IF result.error = None THEN Some("Unknown error")
                   ELSE LET error == Coalesce(result.error, NoExecResult)
                        IN Some(Coalesce(error.stderr,
                                         Coalesce(error.message, "Unknown error"))),
        exitCode |-> exec_exitCode(result),
        duration |-> Some("ms")]

exec_dockerExec(c) ==
  /\ pc[c] = "exec_dockerExec"
  /\ Log(c, <<"exec">>)
  /\ \E r \in {x \in ExecResults :
                 /\ (x \in {"ok", "nonzero"}) => isContainerRunning
                 /\ (x = "unreachable") => ~isContainerRunning} :
       LET result == exec_result(ExecutorResult(r))
       IN /\ pc' = [pc EXCEPT ![c] = "done"]
          /\ stack' = [stack EXCEPT ![c] = <<>>]
          /\ outcome' = [outcome EXCEPT ![c] =
                           [kind |-> "returned",
                            value |-> IF result.success THEN "success" ELSE "failure",
                            exitCode |-> Coalesce(result.exitCode, 0),
                            reason |-> "none",
                            result |-> result,
                            dispatched |-> r]]
  /\ UNCHANGED <<engineUp, imageBuilt, container, epoch, active, op, args, startEpoch, startState, prev>>

(***************************************************************************)
(* DockerManager.getLogs                                                   *)
(***************************************************************************)
\* what the engine does with `docker logs`: prints the log, fails, or runs past
\* the 5 s limit
LogsResults == {"ok", "failed", "timeout"}

\* `result.success && result.data ? result.data.stdout : ''`
getLogs_value(result) ==
  IF result.success /\ result.data # None
  THEN Coalesce(Coalesce(result.data, NoExecResult).stdout, "")
  ELSE ""

getLogs_dockerLogs(c) ==
  /\ pc[c] = "getLogs_dockerLogs"
  /\ Log(c, <<"logs">>)
  /\ \E r \in {x \in LogsResults : (x = "ok") => containerExists} :
       /\ pc' = [pc EXCEPT ![c] = "done"]
       /\ stack' = [stack EXCEPT ![c] = <<>>]
       /\ outcome' = [outcome EXCEPT ![c] =
                        [NoOutcome EXCEPT !.kind = "returned",
                                          !.value = getLogs_value(ExecutorResult(
                                                      IF r = "failed" THEN "nonzero" ELSE r)),
                                          !.dispatched = r]]
  /\ UNCHANGED <<engineUp, imageBuilt, container, epoch, active, op, args, startEpoch, startState, prev>>

(***************************************************************************)
(* Other actors on the same engine                                         *)
(***************************************************************************)
External ==
  /\ epoch < MaxExt
  /\ epoch' = epoch + 1
  /\ \E e \in BOOLEAN, i \in BOOLEAN, k \in ContainerStates :
       /\ <<e, i, k>> # <<engineUp, imageBuilt, container>>
       /\ engineUp' = e
       /\ imageBuilt' = i
       /\ container' = k
  /\ UNCHANGED <<active, pc, op, args, stack, trace, outcome, startEpoch, startState, prev>>

(***************************************************************************)
(* DockerManager: specification with one caller                            *)
(***************************************************************************)
DockerInitWith(callers) ==
  /\ engineUp \in BOOLEAN
  /\ imageBuilt \in BOOLEAN
  /\ container \in ContainerStates
  /\ epoch = 0
  /\ active = callers
  /\ pc = [c \in Callers |-> "idle"]
  /\ op = [c \in Callers |-> "none"]
  /\ args = [c \in Callers |-> FALSE]
  /\ stack = [c \in Callers |-> <<>>]
  /\ trace = [c \in Callers |-> <<>>]
  /\ outcome = [c \in Callers |-> NoOutcome]
  /\ startEpoch = [c \in Callers |-> 0]
  /\ startState = [c \in Callers |-> NoSnapshot]
  /\ prev = [c \in Callers |-> NoPrev]

(***************************************************************************)
(* CommandExecutor.execute: state                                          *)
(***************************************************************************)
VARIABLES
  x_pc,          \* "idle", "loop", "sleep", "attempt" or "done"
  x_retries,     \* mergedOptions.retries
  x_timeout,     \* mergedOptions.timeout, in ms
  x_retryDelay,  \* mergedOptions.retryDelay, in ms
  x_multiplier,  \* mergedOptions.retryBackoffMultiplier
  x_attempt,     \* the loop variable `attempt`
  x_attempts,    \* the local variable `attempts`
  x_lastError,   \* the local variable `lastError`
  x_elapsed,     \* ms since executeSingle took startTime
  x_duration,    \* duration measured by the last executeSingle
  x_log,         \* sleeps, spawns and settlements of this execute call
  x_result       \* what the promise returned by execute settled to

execVars == <<x_pc, x_retries, x_timeout, x_retryDelay, x_multiplier, x_attempt,
              x_attempts, x_lastError, x_elapsed, x_duration, x_log, x_result>>

\* largest retries option explored
MaxRetries == 2

\* largest timeout option explored, in ms
MaxTimeout == 2

\* createTimeoutReject: the timer is armed at timeout + 100
TimeoutBuffer == 100

\* calculateRetryDelay: upper limit of one backoff sleep
MaxRetryDelay == 30000

RetriesOptions == -1 .. MaxRetries

TimeoutOptions == 0 .. MaxTimeout

RetryDelayOptions == {1000, 10000}

MultiplierOptions == {1, 2}

NoResult == [kind |-> "none", error |-> "none", attempts |-> 0, exitCode |-> 0]

\* how the promise of promisify(exec) settles: resolved (exit code 0), or
\* rejected with a non-zero exit, a spawn error, or after exec killed the child
ProcessErrors == {"nonzero", "ENOENT", "killed"}

\* exit codes of a process that ran and exited non-zero
ExitCodes == {3}

\* error.code of the rejection as a number: the exit code k of a non-zero exit
errorCode(e, k) == IF e = "nonzero" THEN k ELSE 0

RECURSIVE Pow(_, _)
Pow(b, e) == IF e = 0 THEN 1 ELSE b * Pow(b, e - 1)

Min(a, b) == IF a <= b THEN a ELSE b

\* variant: the delay is not capped
calculateRetryDelay_uncapped(attempt, baseDelay, multiplier) ==
  baseDelay * Pow(multiplier, attempt)

calculateRetryDelay(attempt, baseDelay, multiplier) ==
  Min(baseDelay * Pow(multiplier, attempt), MaxRetryDelay)

\* class of the CommandExecutionError built for a failed attempt;
\* notFound: stderr contains 'not found', 'command not found' or 'no such file'
resolveCommandError(notFound, duration, timeout) ==
  IF notFound THEN "CommandNotFoundError"
  ELSE IF timeout # 0 /\ duration >= timeout THEN "CommandTimeoutError"
  ELSE "CommandFailedError"

\* exitCode carried by the error: executeSingle leaves exitCode null in every
\* branch, CommandFailedError receives exitCode ?? -1, the other two null
errorExitCode(class) == IF class = "CommandFailedError" THEN -1 ELSE 0

\* variant: the catch block lets the timer's rejection escape
executeSingle_catch_rethrow(notFound, duration, timeout) ==
  [kind |-> IF duration >= timeout + TimeoutBuffer THEN "thrown" ELSE "failure",
   error |-> resolveCommandError(notFound, duration, timeout),
   attempts |-> 0,
   exitCode |-> 0]

\* the Result value executeSingle's catch block returns
executeSingle_catch(notFound, duration, timeout) ==
  [kind |-> "failure",
   error |-> resolveCommandError(notFound, duration, timeout),
   attempts |-> 0,
   exitCode |-> errorExitCode(resolveCommandError(notFound, duration, timeout))]

\* the Result value executeSingle returns when exec resolved
executeSingle_data ==
  [kind |-> "success", error |-> "none", attempts |-> 1, exitCode |-> 0]

(***************************************************************************)
(* CommandExecutor.execute: steps                                          *)
(***************************************************************************)
execute(retries, timeout, retryDelay, multiplier) ==
  /\ x_pc = "idle"
  /\ x_pc' = "loop"
  /\ x_retries' = retries
  /\ x_timeout' = timeout
  /\ x_retryDelay' = retryDelay
  /\ x_multiplier' = multiplier
  /\ x_attempt' = 0
  /\ x_attempts' = 0
  /\ x_lastError' = "null"
  /\ UNCHANGED <<x_elapsed, x_duration, x_log, x_result>>

\* calls executeSingle: takes startTime, spawns the process, arms the timer
execute_spawn ==
  /\ x_pc' = "attempt"
  /\ x_elapsed' = 0
  /\ x_log' = Append(x_log, [ev |-> "spawn", n |-> x_attempt, class |-> "none",
                             timer |-> FALSE, ms |-> 0, code |-> 0, notFound |-> FALSE])

\* loop head: the for condition, `attempts = attempt + 1`, and either the
\* backoff sleep or the call of executeSingle
execute_loop ==
  /\ x_pc = "loop"
  /\ IF x_attempt < x_retries + 1
     THEN /\ x_attempts' = x_attempt + 1
          /\ IF x_attempt > 0 /\ x_retries > 0
             THEN /\ x_pc' = "sleep"
                  /\ x_log' = Append(x_log,
                       [ev |-> "sleep", n |-> x_attempt, class |-> "none", timer |-> FALSE,
                        ms |-> calculateRetryDelay(x_attempt, x_retryDelay, x_multiplier),
                        code |-> 0, notFound |-> FALSE])
                  /\ UNCHANGED x_elapsed
             ELSE execute_spawn
          /\ UNCHANGED x_result
     ELSE /\ x_pc' = "done"
          /\ x_result' = [kind |-> "failure",
                          error |-> IF x_lastError = "null"
                                    THEN "CommandExecutionError" ELSE x_lastError,
                          attempts |-> 0,
                          exitCode |-> IF x_lastError = "null"
                                       THEN 0 ELSE errorExitCode(x_lastError)]
          /\ UNCHANGED <<x_attempts, x_elapsed, x_log>>
  /\ UNCHANGED <<x_retries, x_timeout, x_retryDelay, x_multiplier, x_attempt,
                 x_lastError, x_duration>>

\* the backoff sleep is over
execute_wake ==
  /\ x_pc = "sleep"
  /\ execute_spawn
  /\ UNCHANGED <<x_retries, x_timeout, x_retryDelay, x_multiplier, x_attempt,
                 x_attempts, x_lastError, x_duration, x_result>>

\* time passes while the race between the process and the timer is open: one
\* ms at a time up to the instant after exec's own timeout, then the rest of
\* the buffer at once (durations in between classify alike); the timer fires
\* at timeout + 100, so time cannot pass that instant
Tick ==
  /\ x_pc = "attempt"
  /\ x_elapsed < x_timeout + TimeoutBuffer
  /\ x_elapsed' = IF x_elapsed <= x_timeout
                  THEN x_elapsed + 1
                  ELSE x_timeout + TimeoutBuffer
  /\ UNCHANGED <<x_pc, x_retries, x_timeout, x_retryDelay, x_multiplier, x_attempt,
                 x_attempts, x_lastError, x_duration, x_log, x_result>>

\* variant: only the first failure is remembered
execute_lastError_first(previous, r) == IF previous = "null" THEN r.error ELSE previous

\* `lastError = result.error ?? null` after a failed attempt
execute_lastError(previous, r) == r.error

\* execute continues after `await this.executeSingle(...)` returned r
execute_afterSingle(r, timer, code, notFound) ==
  /\ x_duration' = x_elapsed
  /\ x_log' = Append(x_log, [ev |-> "settle", n |-> x_attempt,
                             class |-> IF r.kind = "success" THEN "ok" ELSE r.error,
                             timer |-> timer, ms |-> 0, code |-> code,
                             notFound |-> notFound])
  /\ IF r.kind = "success"
     THEN /\ x_pc' = "done"
          /\ x_result' = r
          /\ UNCHANGED <<x_attempt, x_lastError>>
     ELSE IF r.kind = "failure"
     THEN /\ x_pc' = "loop"
          /\ x_lastError' = execute_lastError(x_lastError, r)
          /\ x_attempt' = x_attempt + 1
          /\ UNCHANGED x_result
     ELSE /\ x_pc' = "done"
          /\ x_result' = r
          /\ UNCHANGED <<x_attempt, x_lastError>>
  /\ UNCHANGED <<x_retries, x_timeout, x_retryDelay, x_multiplier, x_attempts, x_elapsed>>

\* exec resolves first: the process exited with code 0
executeSingle_resolve ==
  /\ x_pc = "attempt"
  /\ execute_afterSingle(executeSingle_data, FALSE, 0, FALSE)

\* exec rejects first
executeSingle_reject ==
  /\ x_pc = "attempt"
  /\ \E e \in ProcessErrors, notFound \in BOOLEAN, k \in ExitCodes :
       execute_afterSingle(executeSingle_catch(notFound, x_elapsed, x_timeout), FALSE,
                           errorCode(e, k), notFound)

\* the timer of createTimeoutReject fires first: it rejects with a
\* CommandTimeoutError, whose stderr is empty
executeSingle_timer ==
  /\ x_pc = "attempt"
  /\ x_elapsed = x_timeout + TimeoutBuffer
  /\ execute_afterSingle(executeSingle_catch(FALSE, x_elapsed, x_timeout), TRUE, 0, FALSE)

ExecInit ==
  /\ x_pc = "idle"
  /\ x_retries = 0
  /\ x_timeout = 0
  /\ x_retryDelay = 0
  /\ x_multiplier = 0
  /\ x_attempt = 0
  /\ x_attempts = 0
  /\ x_lastError = "null"
  /\ x_elapsed = 0
  /\ x_duration = 0
  /\ x_log = <<>>
  /\ x_result = NoResult

(***************************************************************************)
(* CommandExecutor.executeParallel: state                                  *)
(***************************************************************************)
VARIABLES
  p_pc,           \* "idle", "await" (suspended at Promise.all) or "done"
  p_n,            \* commands.length
  p_ids,          \* cmd.id of each command, by position 1..p_n
  p_concurrency,  \* parallelOptions.concurrency
  p_stopOnError,  \* parallelOptions.stopOnError
  p_i,            \* the loop variable i (0-based offset of the batch)
  p_shouldStop,   \* the local variable shouldStop
  p_successful,   \* the local variable successful
  p_failed,       \* the local variable failed
  p_results,      \* the Map results: id -> "none", "ok" or "fail"
  p_started,      \* positions whose execute has been called
  p_outcome,      \* by position: "none" while unresolved, then "ok" or "fail"
  p_snapshot,     \* by position: the positions already resolved when it started
  p_return,       \* the ParallelExecutionResult
  p_pass          \* passes of the loop body so far, modulo 2

parVars == <<p_pc, p_n, p_ids, p_concurrency, p_stopOnError, p_i, p_shouldStop,
             p_successful, p_failed, p_results, p_started, p_outcome, p_snapshot,
             p_return, p_pass>>

\* longest command list explored
MaxCommands == 3

\* largest finite concurrency explored
MaxConcurrency == 2

\* stands for the default `concurrency = Infinity`: larger than any list
Unlimited == 1000000

Positions == 1 .. MaxCommands

CommandIds == 1 .. MaxCommands

ConcurrencyOptions == (1 .. MaxConcurrency) \cup {Unlimited}

NoReturn == [success |-> FALSE, successful |-> 0, failed |-> 0, total |-> 0]

\* values of concurrency that are no positive number
NonPositiveConcurrency == {0, -1}

\* every offset at or below this one selects the same (empty) slice of any
\* explored list, so the loop variable is kept no lower
MinOffset == 0 - (MaxCommands + 1)

\* i += concurrency
nextOffset(i, concurrency) ==
  IF i + concurrency < MinOffset THEN MinOffset ELSE i + concurrency

\* Array.prototype.slice's reading of an index: a negative index counts from
\* the end, and the result is clamped to 0 .. n
relativeIndex(index, n) ==
  IF index < 0
  THEN (IF n + index < 0 THEN 0 ELSE n + index)
  ELSE (IF index > n THEN n ELSE index)

\* positions of commands.slice(i, i + concurrency)
slice(n, i, concurrency) ==
  {k \in 1 .. n : relativeIndex(i, n) < k /\ k <= relativeIndex(i + concurrency, n)}

\* variant: total counts the commands that were run
executeParallel_return_run(n) ==
  [success |-> p_failed = 0, successful |-> p_successful,
   failed |-> p_failed, total |-> Cardinality(p_started)]

\* the ParallelExecutionResult (results is p_results)
executeParallel_return(n) ==
  [success |-> p_failed = 0, successful |-> p_successful,
   failed |-> p_failed, total |-> n]

\* positions still awaited
Inflight == {k \in p_started : p_outcome[k] = "none"}

Resolved == {k \in p_started : p_outcome[k] # "none"}

\* variant: resumes as soon as one promise of the batch has settled
batchPromisesSettled_any == Resolved # {}

\* `await Promise.all(batchPromises)` can resume
batchPromisesSettled == Inflight = {}

\* `if (shouldStop) break` at the head of the for loop
loopBreak(shouldStop) == shouldStop

\* the for loop from its condition up to the next await, or up to the return:
\* the batch is sliced and every command of it is started in the same turn
executeParallel_loop(n, i, concurrency) ==
  IF i < n /\ ~loopBreak(p_shouldStop)
  THEN /\ p_pc' = "await"
       /\ p_i' = i
       /\ LET batch == IF p_shouldStop THEN {} ELSE slice(n, i, concurrency)
          IN /\ p_started' = p_started \cup batch
             /\ p_snapshot' = [k \in Positions |->
                                 IF k \in batch THEN Resolved ELSE p_snapshot[k]]
       /\ p_pass' = 1 - p_pass
       /\ UNCHANGED p_return
  ELSE /\ p_pc' = "done"
       /\ p_i' = i
       /\ p_return' = executeParallel_return(n)
       /\ UNCHANGED <<p_started, p_snapshot, p_pass>>

executeParallel(n, ids, concurrency, stopOnError) ==
  /\ p_pc = "idle"
  /\ p_n' = n
  /\ p_ids' = ids
  /\ p_concurrency' = concurrency
  /\ p_stopOnError' = stopOnError
  /\ executeParallel_loop(n, 0, concurrency)
  /\ UNCHANGED <<p_shouldStop, p_successful, p_failed, p_results, p_outcome>>

\* variant: a failure never raises the flag
callback_shouldStop_never(ok, stopOnError, shouldStop) == shouldStop

\* `if (stopOnError) shouldStop = true` in the failure branch of the callback
callback_shouldStop(ok, stopOnError, shouldStop) ==
  IF ~ok /\ stopOnError THEN TRUE ELSE shouldStop

\* the execute of the command at position k resolves; the rest of the batch
\* callback runs: results.set, the counters, shouldStop
executeParallel_callback(k, ok) ==
  /\ p_pc = "await"
  /\ k \in Inflight
  /\ p_outcome' = [p_outcome EXCEPT ![k] = IF ok THEN "ok" ELSE "fail"]
  /\ p_results' = [p_results EXCEPT ![p_ids[k]] = IF ok THEN "ok" ELSE "fail"]
  /\ p_successful' = IF ok THEN p_successful + 1 ELSE p_successful
  /\ p_failed' = IF ok THEN p_failed ELSE p_failed + 1
  /\ p_shouldStop' = callback_shouldStop(ok, p_stopOnError, p_shouldStop)
  /\ UNCHANGED <<p_pc, p_n, p_ids, p_concurrency, p_stopOnError, p_i, p_started,
                 p_snapshot, p_return, p_pass>>

\* Promise.all has resolved: `i += concurrency` and the loop goes on
executeParallel_next ==
  /\ p_pc = "await"
  /\ batchPromisesSettled
  /\ executeParallel_loop(p_n, nextOffset(p_i, p_concurrency), p_concurrency)
  /\ UNCHANGED <<p_n, p_ids, p_concurrency, p_stopOnError, p_shouldStop,
                 p_successful, p_failed, p_results, p_outcome>>

ParInit ==
  /\ p_pc = "idle"
  /\ p_n = 0
  /\ p_ids = [k \in Positions |-> 1]
  /\ p_concurrency = 1
  /\ p_stopOnError = FALSE
  /\ p_i = 0
  /\ p_shouldStop = FALSE
  /\ p_successful = 0
  /\ p_failed = 0
  /\ p_results = [id \in CommandIds |-> "none"]
  /\ p_started = {}
  /\ p_outcome = [k \in Positions |-> "none"]
  /\ p_snapshot = [k \in Positions |-> {}]
  /\ p_return = NoReturn
  /\ p_pass = 0

(***************************************************************************)
(* FrameworkDetector: the project trees and the pattern catalogue          *)
(***************************************************************************)
VARIABLES
  d_manifest,   \* package.json of the project "app": "absent", "invalid" or "ok"
  d_deps,       \* for each package name, the manifest section listing it
  d_files,      \* the other files present in "app"
  d_content,    \* content of custom.cfg matches the content-match regex
  d_custom,     \* options.customPatterns
  d_cacheTtl,   \* options.cacheTtl, in ms
  d_now,        \* Date.now(), in ms
  d_cache,      \* the Map cache: path -> CacheEntry or NoEntry
  d_active,     \* callers allowed to invoke the detector
  d_pc,         \* per caller: "idle", "lookup", "read", "score" or "done"
  d_op,         \* per caller: the public method being run
  d_path,       \* per caller: projectPath
  d_pkg,        \* per caller: the value readPackageJson returned
  d_scored,     \* per caller: every FrameworkScore computed by this call
  d_scores,     \* per caller: the list detectWithScore returned
  d_result,     \* per caller: the DetectionResult detect returned
  d_probes,     \* per caller: filesystem reads made by this call
  d_all,        \* per caller: the DetectionResults detectAll returned
  d_recent,     \* per caller: at its cache lookup, this call was within the
                \* TTL of d_lastProbe of its path
  d_lastProbe   \* per path: time at which the last detect call that probed the
                \* filesystem returned; -1 if none did since the last clearCache
                \* or if a later lookup found it older than the TTL

detVars == <<d_manifest, d_deps, d_files, d_content, d_custom, d_cacheTtl, d_now,
             d_cache, d_active, d_pc, d_op, d_path, d_pkg, d_scored, d_scores,
             d_result, d_probes, d_all, d_recent, d_lastProbe>>

\* largest clock value explored, in ms
MaxTime == 2

\* largest options.cacheTtl explored, in ms
MaxCacheTtl == 1

\* "app" is the project drawn by Init; "lib" is a directory holding only
\* angular.json
Paths == {"app", "lib"}

DepNames == {"next", "vite", "react", "express", "typescript", "jest", "prisma"}

Sections == {"none", "dependencies", "devDependencies"}

FileNames == {"next.config.js", "next.config.mjs", "next.config.ts",
              "angular.json", "custom.cfg", "tsconfig.json", "a.test.ts"}

\* file sets explored for "app"
FileSets == {{}, {"next.config.js"}, {"angular.json"}, {"custom.cfg"},
             {"next.config.js", "next.config.mjs", "next.config.ts"},
             {"next.config.ts", "angular.json", "custom.cfg"}}

PkgPattern(dep, scope, priority) ==
  [type |-> "package-json", file |-> "package.json", dep |-> dep, scope |-> scope,
   shouldExist |-> TRUE, priority |-> priority]

FilePattern(file, shouldExist, priority) ==
  [type |-> "file-exists", file |-> file, dep |-> "none", scope |-> "both",
   shouldExist |-> shouldExist, priority |-> priority]

ContentPattern(file, priority) ==
  [type |-> "content-match", file |-> file, dep |-> "none", scope |-> "both",
   shouldExist |-> TRUE, priority |-> priority]

\* confidenceThreshold is kept in tenths: 5 stands for 0.5
Profile(name, patterns, excludes, tenths) ==
  [name |-> name, patterns |-> patterns, excludes |-> excludes, threshold |-> tenths]

\* the entries of FRAMEWORK_PATTERNS that the explored projects can match
FRAMEWORK_PATTERNS ==
  << Profile("Next.js",
             << PkgPattern("next", "both", 10),
                FilePattern("next.config.js", TRUE, 8),
                FilePattern("next.config.mjs", TRUE, 8),
                FilePattern("next.config.ts", TRUE, 8) >>,
             {}, 5),
     Profile("Vite + React",
             << PkgPattern("vite", "both", 5),
                PkgPattern("react", "both", 5) >>,
             {"Next.js", "Remix", "SvelteKit", "Nuxt"}, 6),
     Profile("Angular",
             << FilePattern("angular.json", TRUE, 10) >>,
             {}, 5) >>

\* the entry of BACKEND_FRAMEWORKS that the explored projects can match
BACKEND_FRAMEWORKS ==
  << Profile("Express",
             << PkgPattern("express", "dependencies", 10) >>,
             {}, 5) >>

\* values explored for options.customPatterns
CustomPatternOptions ==
  { <<>>,
    << Profile("Empty", <<>>, {}, 0) >>,
    << Profile("Custom",
               << ContentPattern("custom.cfg", 3),
                  FilePattern("custom.cfg", FALSE, 1),
                  PkgPattern("express", "devDependencies", 0) >>,
               {}, 3) >> }

\* includeBackend defaults to true
buildPatternList(customPatterns) ==
  FRAMEWORK_PATTERNS \o BACKEND_FRAMEWORKS \o customPatterns

NoEntry == [present |-> FALSE, value |-> "none", num |-> 0, den |-> 1,
            evidence |-> <<>>, timestamp |-> 0]

NoDetection == [value |-> "none", num |-> 0, den |-> 1, evidence |-> <<>>,
                alternatives |-> <<>>]

\* a DetectionResult of detectAll's other detections; confidence in tenths
Detection(value, tenths, evidence) ==
  [value |-> value, tenths |-> tenths, evidence |-> evidence]

NoResults == [framework |-> NoDetection, language |-> Detection("none", 0, <<>>),
              testRunner |-> Detection("none", 0, <<>>),
              database |-> Detection("none", 0, <<>>),
              testCounts |-> 0, dependencies |-> {}]

(***************************************************************************)
(* FrameworkDetector: filesystem access                                    *)
(***************************************************************************)
fileExists(path, file) ==
  IF path = "app" THEN file \in d_files ELSE file = "angular.json"

\* readFile(...) of a content-match target succeeded and the regex matched
contentMatches(path, file) ==
  path = "app" /\ file \in d_files /\ file = "custom.cfg" /\ d_content

\* the null that stands for no manifest
NullPkg == [parsed |-> FALSE, deps |-> [n \in DepNames |-> "none"], error |-> "none"]

\* the manifest of a project: "lib" has none
manifestOf(path) == IF path = "app" THEN d_manifest ELSE "absent"

\* variant: the SyntaxError of JSON.parse is not caught
readPackageJson_parseThrows(path) ==
  CASE manifestOf(path) = "ok" -> [parsed |-> TRUE, deps |-> d_deps, error |-> "none"]
    [] manifestOf(path) = "invalid" -> [NullPkg EXCEPT !.error = "SyntaxError"]
    [] OTHER -> NullPkg

\* what the promise of readPackageJson settles with: the parsed manifest, or
\* null when readFile or JSON.parse threw; `error` names a rejection
readPackageJson(path) ==
  IF manifestOf(path) = "ok"
  THEN [parsed |-> TRUE, deps |-> d_deps, error |-> "none"]
  ELSE NullPkg

\* the package names of the merged scope
getDeps(pkg, scope) ==
  IF scope = "both"
  THEN {n \in DepNames : pkg.deps[n] # "none"}
  ELSE {n \in DepNames : pkg.deps[n] = scope}

(***************************************************************************)
(* FrameworkDetector.scoreFramework                                        *)
(***************************************************************************)
\* the test of the switch branch of one pattern
patternMatches(path, pattern, pkg) ==
  CASE pattern.type = "file-exists" ->
         fileExists(path, pattern.file) = pattern.shouldExist
    [] pattern.type = "package-json" ->
         pkg.parsed /\ pattern.dep \in getDeps(pkg, pattern.scope)
    [] pattern.type = "content-match" ->
         contentMatches(path, pattern.file)

patternEvidence(pattern) ==
  CASE pattern.type = "file-exists" ->
         IF pattern.shouldExist THEN "Found " \o pattern.file
         ELSE "Confirmed " \o pattern.file \o " does not exist"
    [] pattern.type = "package-json" -> "Pattern matched in " \o pattern.scope
    [] pattern.type = "content-match" -> "Pattern matched in " \o pattern.file

\* variant: only matched patterns count towards maxScore
addToMaxScore_matched(maxScore, pattern, matched) ==
  IF matched THEN maxScore + pattern.priority ELSE maxScore

\* `maxScore += pattern.priority` at the top of the loop body
addToMaxScore(maxScore, pattern, matched) == maxScore + pattern.priority

\* the for loop over frameworkPattern.patterns; acc holds totalScore, maxScore
\* and evidence
RECURSIVE scoreLoop(_, _, _, _)
scoreLoop(path, patterns, pkg, acc) ==
  IF patterns = <<>> THEN acc
  ELSE LET pattern == Head(patterns)
           matched == patternMatches(path, pattern, pkg)
       IN scoreLoop(path, Tail(patterns), pkg,
            [totalScore |-> IF matched THEN acc.totalScore + pattern.priority
                            ELSE acc.totalScore,
             maxScore |-> addToMaxScore(acc.maxScore, pattern, matched),
             evidence |-> IF matched THEN Append(acc.evidence, patternEvidence(pattern))
                          ELSE acc.evidence])

\* the score is the fraction num/den; `maxScore > 0 ? totalScore / maxScore : 0`
scoreFramework(path, frameworkPattern, pkg) ==
  LET acc == scoreLoop(path, frameworkPattern.patterns, pkg,
                       [totalScore |-> 0, maxScore |-> 0, evidence |-> <<>>])
  IN [framework |-> frameworkPattern.name,
      num |-> IF acc.maxScore > 0 THEN acc.totalScore ELSE 0,
      den |-> IF acc.maxScore > 0 THEN acc.maxScore ELSE 1,
      evidence |-> acc.evidence]

\* `score.score >= frameworkPattern.confidenceThreshold`
meetsThreshold(score, frameworkPattern) ==
  10 * score.num >= frameworkPattern.threshold * score.den

\* a.score > b.score
scoreGreater(a, b) == a.num * b.den > b.num * a.den

\* results.sort((a, b) => b.score - a.score): stable, descending
RECURSIVE insertSorted(_, _)
insertSorted(sorted, x) ==
  IF sorted = <<>> THEN <<x>>
  ELSE IF scoreGreater(x, Head(sorted)) THEN <<x>> \o sorted
  ELSE <<Head(sorted)>> \o insertSorted(Tail(sorted), x)

RECURSIVE sortByScore(_)
sortByScore(results) ==
  IF results = <<>> THEN <<>>
  ELSE insertSorted(sortByScore(SubSeq(results, 1, Len(results) - 1)),
                    results[Len(results)])

\* every profile scored, in catalogue order
RECURSIVE scoreAll(_, _, _)
scoreAll(path, patterns, pkg) ==
  IF patterns = <<>> THEN <<>>
  ELSE <<scoreFramework(path, Head(patterns), pkg)>> \o scoreAll(path, Tail(patterns), pkg)

\* the loop of detectWithScore: the scores that reach their profile's threshold
RECURSIVE keepQualifying(_, _)
keepQualifying(scores, patterns) ==
  IF scores = <<>> THEN <<>>
  ELSE (IF meetsThreshold(Head(scores), Head(patterns)) THEN <<Head(scores)>> ELSE <<>>)
       \o keepQualifying(Tail(scores), Tail(patterns))

(***************************************************************************)
(* FrameworkDetector: the cache                                            *)
(***************************************************************************)
\* getFromCache finds a live entry
cacheHit(key) ==
  d_cache[key].present /\ ~(d_now - d_cache[key].timestamp > d_cacheTtl)

\* variant: an expired entry is left in the cache
cacheAfterGet_keep(key) == d_cache

\* the cache after getFromCache(key): an expired entry is deleted
cacheAfterGet(key) ==
  IF d_cache[key].present /\ d_now - d_cache[key].timestamp > d_cacheTtl
  THEN [d_cache EXCEPT ![key] = NoEntry]
  ELSE d_cache

\* variant: the cache entry drops the evidence
setToCache_noEvidence(key, best) ==
  [d_cache EXCEPT ![key] =
     [present |-> TRUE, value |-> best.framework, num |-> best.num, den |-> best.den,
      evidence |-> <<>>, timestamp |-> d_now]]

\* the cache after setToCache(key, best)
setToCache(key, best) ==
  [d_cache EXCEPT ![key] =
     [present |-> TRUE, value |-> best.framework, num |-> best.num, den |-> best.den,
      evidence |-> best.evidence, timestamp |-> d_now]]

(***************************************************************************)
(* FrameworkDetector.detect / detectWithScore / clearCache                 *)
(***************************************************************************)
\* the DetectionResult detect builds from the list detectWithScore returned
detect_result(scores) ==
  IF scores = <<>>
  THEN [value |-> "Unknown", num |-> 0, den |-> 1,
        evidence |-> <<"No framework patterns matched">>, alternatives |-> <<>>]
  ELSE [value |-> scores[1].framework, num |-> scores[1].num, den |-> scores[1].den,
        evidence |-> scores[1].evidence,
        alternatives |-> [i \in 1 .. (Len(scores) - 1) |->
                            [value |-> scores[i + 1].framework,
                             num |-> scores[i + 1].num, den |-> scores[i + 1].den]]]

\* detectWithScore returns `scores`; detect, when it is the caller, maps them
detectWithScore_return(c, scores) ==
  /\ d_pc' = [d_pc EXCEPT ![c] = IF d_op[c] = "detectAll" THEN "detectAll_rest" ELSE "done"]
  /\ d_scores' = [d_scores EXCEPT ![c] = scores]
  /\ d_result' = [d_result EXCEPT ![c] =
                    IF d_op[c] \in {"detect", "detectAll"} THEN detect_result(scores)
                    ELSE NoDetection]

DetectorOps == {"detect", "detectWithScore"}

\* a caller invokes detect or detectWithScore
detect_invoke(c, o, path) ==
  /\ c \in d_active
  /\ d_pc[c] \in {"idle", "done", "thrown"}
  /\ d_pc' = [d_pc EXCEPT ![c] = "lookup"]
  /\ d_op' = [d_op EXCEPT ![c] = o]
  /\ d_path' = [d_path EXCEPT ![c] = path]
  /\ d_pkg' = [d_pkg EXCEPT ![c] = NullPkg]
  /\ d_scored' = [d_scored EXCEPT ![c] = <<>>]
  /\ d_scores' = [d_scores EXCEPT ![c] = <<>>]
  /\ d_result' = [d_result EXCEPT ![c] = NoDetection]
  /\ d_probes' = [d_probes EXCEPT ![c] = 0]
  /\ d_all' = [d_all EXCEPT ![c] = NoResults]
  /\ d_recent' = [d_recent EXCEPT ![c] = FALSE]
  /\ UNCHANGED <<d_manifest, d_deps, d_files, d_content, d_custom, d_cacheTtl,
                 d_now, d_cache, d_active, d_lastProbe>>

\* a detect call for this path probed the filesystem and returned no longer
\* than the TTL ago, with no clearCache since
probedWithinTtl(path) ==
  d_lastProbe[path] >= 0 /\ d_now - d_lastProbe[path] <= d_cacheTtl

\* detectWithScore up to its first await: the cache lookup
detectWithScore_lookup(c) ==
  /\ d_pc[c] = "lookup"
  /\ d_cache' = cacheAfterGet(d_path[c])
  /\ IF cacheHit(d_path[c])
     THEN LET cached == d_cache[d_path[c]]
          IN detectWithScore_return(c,
               << [framework |-> cached.value, num |-> cached.num,
                   den |-> cached.den, evidence |-> cached.evidence] >>)
     ELSE /\ d_pc' = [d_pc EXCEPT ![c] = "read"]
          /\ UNCHANGED <<d_scores, d_result>>
  /\ d_recent' = [d_recent EXCEPT ![c] = probedWithinTtl(d_path[c])]
  /\ d_lastProbe' = IF probedWithinTtl(d_path[c]) THEN d_lastProbe
                    ELSE [d_lastProbe EXCEPT ![d_path[c]] = -1]
  /\ UNCHANGED <<d_manifest, d_deps, d_files, d_content, d_custom, d_cacheTtl,
                 d_now, d_active, d_op, d_path, d_pkg, d_scored, d_probes, d_all>>

\* `await this.readPackageJson(projectPath)`; a rejection would propagate to
\* the caller of the public method
detectWithScore_read(c) ==
  /\ d_pc[c] = "read"
  /\ LET pkg == readPackageJson(d_path[c])
     IN /\ d_pc' = [d_pc EXCEPT ![c] = IF pkg.error = "none" THEN "score" ELSE "thrown"]
        /\ d_pkg' = [d_pkg EXCEPT ![c] = pkg]
  /\ d_probes' = [d_probes EXCEPT ![c] = @ + 1]
  /\ UNCHANGED <<d_manifest, d_deps, d_files, d_content, d_custom, d_cacheTtl,
                 d_now, d_cache, d_active, d_op, d_path, d_scored, d_scores, d_result,
                 d_all, d_recent, d_lastProbe>>

\* the scoring loop, the sort, the cache write and the return
detectWithScore_score(c) ==
  /\ d_pc[c] = "score"
  /\ LET patterns == buildPatternList(d_custom)
         all == scoreAll(d_path[c], patterns, d_pkg[c])
         results == sortByScore(keepQualifying(all, patterns))
     IN /\ d_scored' = [d_scored EXCEPT ![c] = all]
        /\ d_cache' = IF results # <<>> THEN setToCache(d_path[c], results[1])
                      ELSE d_cache
        /\ detectWithScore_return(c, results)
  /\ d_probes' = [d_probes EXCEPT ![c] = @ + 1]
  /\ d_lastProbe' = IF d_op[c] \in {"detect", "detectAll"}
                    THEN [d_lastProbe EXCEPT ![d_path[c]] = d_now]
                    ELSE d_lastProbe
  /\ UNCHANGED <<d_manifest, d_deps, d_files, d_content, d_custom, d_cacheTtl,
                 d_now, d_active, d_op, d_path, d_pkg, d_all, d_recent>>

(***************************************************************************)
(* FrameworkDetector.detectAll                                             *)
(***************************************************************************)
\* `pkg?.devDependencies?.typescript || pkg?.dependencies?.typescript`, then
\* tsconfig.json
detectLanguage(path, pkg) ==
  LET hasTs == pkg.parsed /\ pkg.deps["typescript"] # "none"
      hasTsConfig == fileExists(path, "tsconfig.json")
  IN IF hasTs \/ hasTsConfig
     THEN Detection("TypeScript", IF hasTsConfig THEN 9 ELSE 7,
                    IF hasTsConfig THEN <<"Found tsconfig.json">>
                    ELSE <<"Found typescript in dependencies">>)
     ELSE Detection("JavaScript", 5, <<"Default language assumption">>)

\* the merged dependency names; {} for a null manifest
allDeps(pkg) == IF pkg.parsed THEN {n \in DepNames : pkg.deps[n] # "none"} ELSE {}

detectTestRunner(pkg) ==
  CASE "vitest" \in allDeps(pkg) ->
         Detection("Vitest", 9, <<"Found vitest in dependencies">>)
    [] "jest" \in allDeps(pkg) -> Detection("Jest", 9, <<"Found jest in dependencies">>)
    [] "mocha" \in allDeps(pkg) -> Detection("Mocha", 8, <<"Found mocha in dependencies">>)
    [] OTHER -> Detection("Vitest", 3, <<"Default test runner">>)

detectDatabase(pkg) ==
  CASE "@prisma/client" \in allDeps(pkg) \/ "prisma" \in allDeps(pkg) ->
         Detection("Prisma", 9, <<"Found Prisma in dependencies">>)
    [] "@tanstack/react-query" \in allDeps(pkg) ->
         Detection("None", 6, <<"Found TanStack Query (likely API client)">>)
    [] OTHER -> Detection("None", 10, <<"No database detected">>)

\* the test files directly under the project root; a directory that cannot
\* be listed counts none
countTestFiles(path) ==
  IF path = "app" THEN Cardinality({f \in d_files : f = "a.test.ts"}) ELSE 0

\* the DetectionResults record, given detect's result and the manifest that
\* each later readPackageJson call returns
detectAll_results(path, frameworkResult, pkg) ==
  [framework |-> frameworkResult,
   language |-> detectLanguage(path, pkg),
   testRunner |-> detectTestRunner(pkg),
   database |-> detectDatabase(pkg),
   testCounts |-> countTestFiles(path),
   dependencies |-> allDeps(pkg)]

\* detectAll after `await this.detect(projectPath)`: the language, test
\* runner and database detections, the test count and the dependency list
detectAll_rest(c) ==
  /\ d_pc[c] = "detectAll_rest"
  /\ LET pkg == readPackageJson(d_path[c])
     IN IF pkg.error = "none"
        THEN /\ d_pc' = [d_pc EXCEPT ![c] = "done"]
             /\ d_all' = [d_all EXCEPT ![c] =
                            detectAll_results(d_path[c], d_result[c], pkg)]
        ELSE /\ d_pc' = [d_pc EXCEPT ![c] = "thrown"]
             /\ d_all' = d_all
  /\ d_probes' = [d_probes EXCEPT ![c] = @ + 1]
  /\ UNCHANGED <<d_manifest, d_deps, d_files, d_content, d_custom, d_cacheTtl,
                 d_now, d_cache, d_active, d_op, d_path, d_pkg, d_scored, d_scores,
                 d_result, d_recent, d_lastProbe>>

clearCache ==
  /\ \E c \in d_active : d_pc[c] \in {"idle", "done", "thrown"}
  /\ d_cache' = [key \in Paths |-> NoEntry]
  /\ d_lastProbe' = [key \in Paths |-> -1]
  /\ UNCHANGED <<d_manifest, d_deps, d_files, d_content, d_custom, d_cacheTtl,
                 d_now, d_active, d_pc, d_op, d_path, d_pkg, d_scored, d_scores,
                 d_result, d_probes, d_all, d_recent>>

\* one ms passes
Clock ==
  /\ d_now < MaxTime
  /\ d_now' = d_now + 1
  /\ UNCHANGED <<d_manifest, d_deps, d_files, d_content, d_custom, d_cacheTtl,
                 d_cache, d_active, d_pc, d_op, d_path, d_pkg, d_scored, d_scores,
                 d_result, d_probes, d_all, d_recent, d_lastProbe>>

DetIdle ==
  /\ d_now = 0
  /\ d_cache = [key \in Paths |-> NoEntry]
  /\ d_pc = [c \in Callers |-> "idle"]
  /\ d_op = [c \in Callers |-> "none"]
  /\ d_path = [c \in Callers |-> "app"]
  /\ d_pkg = [c \in Callers |-> NullPkg]
  /\ d_scored = [c \in Callers |-> <<>>]
  /\ d_scores = [c \in Callers |-> <<>>]
  /\ d_result = [c \in Callers |-> NoDetection]
  /\ d_probes = [c \in Callers |-> 0]
  /\ d_all = [c \in Callers |-> NoResults]
  /\ d_recent = [c \in Callers |-> FALSE]
  /\ d_lastProbe = [key \in Paths |-> -1]

\* the state of the other specifications' detector
DetNone ==
  /\ DetIdle
  /\ d_manifest = "absent"
  /\ d_deps = [n \in DepNames |-> "none"]
  /\ d_files = {}
  /\ d_content = FALSE
  /\ d_custom = <<>>
  /\ d_cacheTtl = 0
  /\ d_active = {}

\* file sets explored by the specification of detectAll
AllFileSets == {{}, {"angular.json"}, {"tsconfig.json"},
                {"angular.json", "tsconfig.json", "a.test.ts"}}

\* the projects of the specification of detectAll: default catalogue; an
\* unparsable manifest still holds text that names packages
DetAllInitWith(callers) ==
  /\ DetIdle
  /\ d_manifest \in {"absent", "invalid", "ok"}
  /\ d_deps \in [DepNames -> Sections]
  /\ (d_manifest = "absent") => (d_deps = [n \in DepNames |-> "none"])
  /\ d_deps["next"] = "none"
  /\ d_deps["vite"] = d_deps["react"]
  /\ d_deps["vite"] # "devDependencies"
  /\ d_deps["express"] # "devDependencies"
  /\ d_deps["typescript"] # "dependencies"
  /\ d_deps["jest"] # "dependencies"
  /\ d_deps["prisma"] = "none"
  /\ d_files \in AllFileSets
  /\ d_content = FALSE
  /\ d_custom = <<>>
  /\ d_cacheTtl \in {0, MaxCacheTtl}
  /\ d_active = callers

DetInitWith(callers) ==
  /\ DetIdle
  /\ d_manifest \in {"absent", "invalid", "ok"}
  /\ d_deps \in [DepNames -> Sections]
  /\ (d_manifest # "ok") => (d_deps = [n \in DepNames |-> "none"])
  /\ d_deps["next"] # "devDependencies"
  /\ d_deps["vite"] # "devDependencies"
  /\ d_deps["react"] \in {"none", d_deps["vite"]}
  /\ \A n \in {"typescript", "jest", "prisma"} : d_deps[n] = "none"
  /\ d_files \in FileSets
  /\ d_content \in BOOLEAN
  /\ d_content => ("custom.cfg" \in d_files)
  /\ d_custom \in CustomPatternOptions
  /\ d_cacheTtl \in {0, MaxCacheTtl}
  /\ d_active = callers

(***************************************************************************)
(* FrameworkDetector.getCacheStats, and the detector shared by two callers *)
(***************************************************************************)
VARIABLES
  d_stats,     \* what the last getCacheStats() returned; n alternates per call
  d_raced,     \* a call missed the cache while the other caller's call for the
               \* same path was probing, and neither caller has called since
  d_evicted,   \* the latest cache lookup found an entry older than the TTL
  d_populated  \* per path: what the detect() call that wrote the cache entry
               \* returned (NoDetection when detectWithScore was called
               \* directly); kept by the specification of cache-served calls

cacheVars == <<d_stats, d_raced, d_evicted, d_populated>>

\* `options.cacheTtl ?? 300_000`
DefaultCacheTtl == 300000

CacheTtlOptions == {None, Some(MaxCacheTtl)}

\* the keys of the Map
StoredPaths == {key \in Paths : d_cache[key].present}

RECURSIVE ArrayFrom(_)
ArrayFrom(keys) ==
  IF keys = {} THEN <<>>
  ELSE LET key == CHOOSE k \in keys : TRUE
       IN <<key>> \o ArrayFrom(keys \ {key})

\* variant: only the entries that are still within the TTL are counted
getCacheStats_result_live ==
  [size |-> Cardinality({key \in StoredPaths : cacheHit(key)}),
   keys |-> ArrayFrom(StoredPaths)]

\* { size: this.cache.size, keys: Array.from(this.cache.keys()) }
getCacheStats_result ==
  [size |-> Cardinality(StoredPaths), keys |-> ArrayFrom(StoredPaths)]

NoStats == [size |-> 0, keys |-> <<>>, n |-> 0]

getCacheStats ==
  /\ \E c \in d_active : d_pc[c] \in {"idle", "done", "thrown"}
  /\ d_stats' = [size |-> getCacheStats_result.size,
                 keys |-> getCacheStats_result.keys,
                 n |-> 1 - d_stats.n]
  /\ UNCHANGED <<detVars, d_raced, d_evicted, d_populated>>

\* the call of c is about to miss the cache while the other caller's
\* detectWithScore for the same path is between its lookup and its cache write
raceBegins(c) ==
  /\ d_op[c] = "detectWithScore"
  /\ ~cacheHit(d_path[c])
  /\ \E other \in Callers \ {c} :
       /\ d_pc[other] \in {"read", "score"}
       /\ d_op[other] = "detectWithScore"
       /\ d_path[other] = d_path[c]

\* getFromCache(key) is about to find an entry older than the TTL
expired(key) == d_cache[key].present /\ ~cacheHit(key)

CacheIdle ==
  /\ d_stats = NoStats
  /\ d_raced = FALSE
  /\ d_evicted = FALSE
  /\ d_populated = [key \in Paths |-> NoDetection]

\* projects with one and with two qualifying profiles: "app" holds
\* angular.json or not and depends on express or not
DetServedInit ==
  /\ DetIdle
  /\ d_manifest = "ok"
  /\ d_deps \in [DepNames -> Sections]
  /\ \A n \in DepNames \ {"express"} : d_deps[n] = "none"
  /\ d_deps["express"] # "devDependencies"
  /\ d_files \in {{}, {"angular.json"}}
  /\ d_content = FALSE
  /\ d_custom = <<>>
  /\ d_cacheTtl \in {0, MaxCacheTtl}
  /\ d_active = {"A"}
  /\ CacheIdle

\* "app" is a project that matches no profile, "lib" matches Angular; the
\* detector is built with or without the cacheTtl option
DetCacheInit ==
  /\ DetIdle
  /\ d_manifest = "ok"
  /\ d_deps = [n \in DepNames |-> "none"]
  /\ d_files = {}
  /\ d_content = FALSE
  /\ d_custom = <<>>
  /\ d_cacheTtl \in {Coalesce(option, DefaultCacheTtl) : option \in CacheTtlOptions}
  /\ d_active = {"A", "B"}
  /\ CacheIdle

(***************************************************************************)
(* DaemonError: construction, toJSON, fromJSON.  A message is the sequence *)
(* of the pieces its template concatenates; a context is a set of          *)
(* <<key, value>> pairs with one pair per key.                             *)
(***************************************************************************)
VARIABLES
  e_pc,        \* "constructed", "serialized" or "restored"
  e_error,     \* the error e
  e_json,      \* e.toJSON()
  e_restored   \* DaemonError.fromJSON(e.toJSON())

errVars == <<e_pc, e_error, e_json, e_restored>>

\* values of `cause`: undefined, an Error, a DaemonError (an Error that has a
\* code), or a value that is no Error
NoCause == [is |-> "undefined", name |-> "", message |-> <<>>, code |-> ""]

Causes ==
  { NoCause,
    [is |-> "Error", name |-> "Error", message |-> <<"Original error">>, code |-> ""],
    [is |-> "DaemonError", name |-> "ImageBuildError", message |-> <<"inner">>,
     code |-> "DOCKER_003"],
    [is |-> "value", name |-> "", message |-> <<"timeout">>, code |-> ""] }

ContextOptions ==
  { None, Some({}), Some({<<"key", "value">>}),
    Some({<<"buildPath", "override">>, <<"projectId", "123">>}) }

\* DaemonErrorOptions; an omitted `options` reads as NoOptions
ErrorOptionsSet == {[cause |-> k, context |-> x] : k \in Causes, x \in ContextOptions}

NoOptions == [cause |-> NoCause, context |-> None]

Keys(context) == {pair[1] : pair \in context}

\* { ...base, ...over }
Spread(base, over) == over \cup {pair \in base : pair[1] \notin Keys(over)}

\* new DaemonError(message, code, options), run as the constructor of class
DaemonError(class, message, code, options) ==
  [class |-> class, name |-> class, message |-> message, code |-> code,
   context |-> Coalesce(options.context, {}), cause |-> options.cause,
   stack |-> <<class, message>>]

\* class BaseDockerError: `this.name = 'DockerError'` after super(...)
BaseDockerError(class, message, code, options) ==
  [DaemonError(class, message, code, options) EXCEPT !.name = "DockerError"]

ImageBuildError(buildPath, buildReason, options) ==
  [BaseDockerError("ImageBuildError",
                   <<"Docker image build failed for ", buildPath, ": ", buildReason>>,
                   "DOCKER_003",
                   [options EXCEPT !.context =
                      Some(Spread({<<"buildPath", buildPath>>,
                                   <<"buildReason", buildReason>>},
                                  Coalesce(options.context, {})))])
   EXCEPT !.name = "ImageBuildError"]

\* class CommandExecutionError; a null exitCode is written "null"
CommandExecutionError(class, message, command, exitCode, stdout, stderr, options) ==
  [DaemonError(class, message, "COMMAND_001",
               [options EXCEPT !.context =
                  Some(Spread({<<"command", command>>, <<"exitCode", exitCode>>,
                               <<"stdout", stdout>>, <<"stderr", stderr>>},
                              Coalesce(options.context, {})))])
   EXCEPT !.name = "CommandExecutionError"]

CommandFailedError(command, exitCode, stdout, stderr, options) ==
  [CommandExecutionError("CommandFailedError",
                         <<"Command failed with exit code ", exitCode, ": ", command>>,
                         command, exitCode, stdout, stderr, options)
   EXCEPT !.name = "CommandFailedError"]

CommandNotFoundError(command, options) ==
  [CommandExecutionError("CommandNotFoundError", <<"Command not found: ", command>>,
                         command, "null", "", "", options)
   EXCEPT !.name = "CommandNotFoundError"]

CommandTimeoutError(command, timeout, options) ==
  [CommandExecutionError("CommandTimeoutError",
                         <<"Command timed out after ", timeout, "ms: ", command>>,
                         command, "null", "", "",
                         [options EXCEPT !.context =
                            Some(Spread({<<"timeout", timeout>>},
                                        Coalesce(options.context, {})))])
   EXCEPT !.name = "CommandTimeoutError"]

CommandCancelledError(command, options) ==
  [CommandExecutionError("CommandCancelledError", <<"Command cancelled: ", command>>,
                         command, "null", "", "", options)
   EXCEPT !.name = "CommandCancelledError"]

\* the code table in the header of the command errors
CommandCodeTable ==
  [CommandExecutionError |-> "COMMAND_001", CommandNotFoundError |-> "COMMAND_002",
   CommandTimeoutError |-> "COMMAND_003", CommandFailedError |-> "COMMAND_004",
   InvalidCommandArgumentsError |-> "COMMAND_005",
   CommandCancelledError |-> "COMMAND_006"]

Messages == {<<"Test error">>, <<"Wrapped error">>}

Codes == {"TEST_004", "DAEMON_001"}

\* the errors e the round trip is applied to
Errors ==
  {DaemonError("DaemonError", m, c, o) :
     m \in Messages, c \in Codes, o \in ErrorOptionsSet \cup {NoOptions}}
  \cup {ImageBuildError("docker", r, o) :
          r \in {"exit 1", "timeout"}, o \in ErrorOptionsSet \cup {NoOptions}}
  \cup {CommandFailedError("ls", k, "", x, o) :
          k \in {"-1"}, x \in {"", "denied"}, o \in ErrorOptionsSet \cup {NoOptions}}
  \cup {CommandNotFoundError("ls", o) : o \in {NoOptions}}
  \cup {CommandTimeoutError("ls", "30000", o) : o \in {NoOptions}}
  \cup {CommandCancelledError("ls", o) : o \in {NoOptions}}

NoJson ==
  [name |-> "", message |-> <<>>, code |-> "", context |-> {}, cause |-> NoCause,
   stack |-> <<>>]

NoError == DaemonError("none", <<>>, "", NoOptions)

\* e.toJSON(): a cause that is an Error becomes {name, message, code}, code
\* undefined unless the cause has one; any other cause is passed as it is
toJSON(e) ==
  [name |-> e.name,
   message |-> e.message,
   code |-> e.code,
   context |-> e.context,
   cause |-> IF e.cause.is \in {"Error", "DaemonError"}
             THEN [is |-> "value", name |-> e.cause.name, message |-> e.cause.message,
                   code |-> IF e.cause.is = "DaemonError"
                            THEN e.cause.code ELSE "undefined"]
             ELSE e.cause,
   stack |-> e.stack]

\* variant: fromJSON keeps the name the constructor assigned
fromJSON_constructed(data) ==
  [DaemonError("DaemonError", data.message, data.code,
               [cause |-> data.cause, context |-> Some(data.context)])
   EXCEPT !.stack = data.stack]

\* DaemonError.fromJSON(data): a new DaemonError whose name and stack are then
\* overwritten from data
fromJSON(data) ==
  [DaemonError("DaemonError", data.message, data.code,
               [cause |-> data.cause, context |-> Some(data.context)])
   EXCEPT !.name = data.name, !.stack = data.stack]

serialize ==
  /\ e_pc = "constructed"
  /\ e_json' = toJSON(e_error)
  /\ e_pc' = "serialized"
  /\ UNCHANGED <<e_error, e_restored>>

deserialize ==
  /\ e_pc = "serialized"
  /\ e_restored' = fromJSON(e_json)
  /\ e_pc' = "restored"
  /\ UNCHANGED <<e_error, e_json>>

ErrInit ==
  /\ e_pc = "constructed"
  /\ e_error \in Errors
  /\ e_json = NoJson
  /\ e_restored = NoError

\* no error under study
ErrNone ==
  /\ e_pc = "none"
  /\ e_error = NoError
  /\ e_json = NoJson
  /\ e_restored = NoError

(***************************************************************************)
(* Specifications                                                          *)
(***************************************************************************)
vars == <<dockerVars, execVars, parVars, detVars, cacheVars, errVars>>

\* a step of the manager leaves the other components alone
DockerFrame == UNCHANGED <<execVars, parVars, detVars, cacheVars, errVars>>

DockerStep(c) ==
  \/ /\ \E o \in Ops, force \in BOOLEAN :
          /\ (o # "remove") => ~force
          /\ Invoke(c, o, force)
     /\ DockerFrame
  \/ /\ setup_isRunning(c)
     /\ DockerFrame
  \/ /\ setup_isImageBuilt(c)
     /\ DockerFrame
  \/ /\ setup_build(c)
     /\ DockerFrame
  \/ /\ setup_isContainerRunning(c)
     /\ DockerFrame
  \/ /\ setup_containerExists(c)
     /\ DockerFrame
  \/ /\ start_isContainerRunning(c)
     /\ DockerFrame
  \/ /\ start_containerExists(c)
     /\ DockerFrame
  \/ /\ start_dockerStart(c)
     /\ DockerFrame
  \/ /\ create_containerExists(c)
     /\ DockerFrame
  \/ /\ create_dockerRun(c)
     /\ DockerFrame
  \/ /\ stop_isContainerRunning(c)
     /\ DockerFrame
  \/ /\ stop_dockerStop(c)
     /\ DockerFrame
  \/ /\ remove_containerExists(c)
     /\ DockerFrame
  \/ /\ remove_dockerRm(c)
     /\ DockerFrame
  \/ /\ exec_isContainerRunning(c)
     /\ DockerFrame
  \/ /\ exec_dockerExec(c)
     /\ DockerFrame
  \/ /\ getLogs_dockerLogs(c)
     /\ DockerFrame

DockerNext ==
  \/ \E c \in Callers : DockerStep(c)
  \/ External /\ DockerFrame

\* the operations that bring the container up
ReadinessOps == {"setup", "start"}

\* two callers share one manager and one engine; the engine stays reachable
\* and carries out every command it can carry out, so that a command fails
\* only for what the other caller did
PairStep(c) ==
  \/ /\ \E o \in ReadinessOps : Invoke(c, o, FALSE)
     /\ DockerFrame
  \/ /\ setup_isRunning(c)
     /\ DockerFrame
  \/ /\ setup_isImageBuilt(c)
     /\ DockerFrame
  \/ /\ setup_build(c)
     /\ imageBuilt'
     /\ DockerFrame
  \/ /\ setup_isContainerRunning(c)
     /\ DockerFrame
  \/ /\ setup_containerExists(c)
     /\ DockerFrame
  \/ /\ start_isContainerRunning(c)
     /\ DockerFrame
  \/ /\ start_containerExists(c)
     /\ DockerFrame
  \/ /\ start_dockerStart(c)
     /\ (container # "absent") => (container' = "running")
     /\ DockerFrame
  \/ /\ create_containerExists(c)
     /\ DockerFrame
  \/ /\ create_dockerRun(c)
     /\ (imageBuilt /\ container = "absent") => (container' = "running")
     /\ DockerFrame

PairNext == \E c \in Callers : PairStep(c)

DockerPairInit ==
  /\ DockerInitWith({"A", "B"})
  /\ engineUp
  /\ container \in {"absent", "stopped"}
  /\ ExecInit /\ ParInit /\ DetNone /\ CacheIdle /\ ErrNone

SpecDockerPair ==
  DockerPairInit /\ [][PairNext]_vars

ExecFrame == UNCHANGED <<dockerVars, parVars, detVars, cacheVars, errVars>>

ExecNext ==
  \/ /\ \E r \in RetriesOptions, t \in TimeoutOptions,
           d \in RetryDelayOptions, m \in MultiplierOptions : execute(r, t, d, m)
     /\ ExecFrame
  \/ /\ execute_loop
     /\ ExecFrame
  \/ /\ execute_wake
     /\ ExecFrame
  \/ /\ Tick
     /\ ExecFrame
  \/ /\ executeSingle_resolve
     /\ ExecFrame
  \/ /\ executeSingle_reject
     /\ ExecFrame
  \/ /\ executeSingle_timer
     /\ ExecFrame

ParFrame == UNCHANGED <<dockerVars, execVars, detVars, cacheVars, errVars>>

ParNext ==
  \/ /\ p_pc = "idle"
     /\ \E n \in 0 .. MaxCommands, ids \in [Positions -> CommandIds],
           c \in ConcurrencyOptions, stop \in BOOLEAN :
          /\ \A k \in Positions : k > n => ids[k] = 1
          /\ executeParallel(n, ids, c, stop)
     /\ ParFrame
  \/ /\ \E k \in Positions, ok \in BOOLEAN : executeParallel_callback(k, ok)
     /\ ParFrame
  \/ /\ executeParallel_next
     /\ ParFrame

\* executeParallel called with any concurrency
ParAnyNext ==
  \/ /\ p_pc = "idle"
     /\ \E n \in 0 .. MaxCommands, ids \in [Positions -> CommandIds],
           c \in ConcurrencyOptions \cup NonPositiveConcurrency, stop \in BOOLEAN :
          /\ \A k \in Positions : k > n => ids[k] = 1
          /\ executeParallel(n, ids, c, stop)
     /\ ParFrame
  \/ /\ \E k \in Positions, ok \in BOOLEAN : executeParallel_callback(k, ok)
     /\ ParFrame
  \/ /\ executeParallel_next
     /\ ParFrame

DetFrame == UNCHANGED <<dockerVars, execVars, parVars, cacheVars, errVars>>

DetStep(c) ==
  \/ /\ \E o \in DetectorOps, path \in Paths : detect_invoke(c, o, path)
     /\ DetFrame
  \/ /\ detectWithScore_lookup(c)
     /\ DetFrame
  \/ /\ detectWithScore_read(c)
     /\ DetFrame
  \/ /\ detectWithScore_score(c)
     /\ DetFrame

DetNext ==
  \/ \E c \in Callers : DetStep(c)
  \/ clearCache /\ DetFrame
  \/ Clock /\ DetFrame

DetAllStep(c) ==
  \/ /\ \E o \in DetectorOps \cup {"detectAll"}, path \in Paths : detect_invoke(c, o, path)
     /\ DetFrame
  \/ /\ detectWithScore_lookup(c)
     /\ DetFrame
  \/ /\ detectWithScore_read(c)
     /\ DetFrame
  \/ /\ detectWithScore_score(c)
     /\ DetFrame
  \/ /\ detectAll_rest(c)
     /\ DetFrame

DetAllNext ==
  \/ \E c \in Callers : DetAllStep(c)
  \/ clearCache /\ DetFrame
  \/ Clock /\ DetFrame

\* the manager of the specifications that do not exercise it
DockerIdle == DockerInitWith({}) /\ engineUp /\ imageBuilt /\ container = "absent"

DockerInit == DockerInitWith({"A"}) /\ ExecInit /\ ParInit /\ DetNone /\ CacheIdle /\ ErrNone

SpecDocker ==
  DockerInit /\ [][DockerNext]_vars

InitExec == DockerIdle /\ ExecInit /\ ParInit /\ DetNone /\ CacheIdle /\ ErrNone

SpecExec ==
  InitExec /\ [][ExecNext]_vars

InitPar == DockerIdle /\ ExecInit /\ ParInit /\ DetNone /\ CacheIdle /\ ErrNone

SpecPar ==
  InitPar /\ [][ParNext]_vars

InitParLive == DockerIdle /\ ExecInit /\ ParInit /\ DetNone /\ CacheIdle /\ ErrNone

\* every execute resolves and the event loop runs whatever is ready
SpecParLive ==
  InitParLive /\ [][ParAnyNext]_vars /\ WF_vars(ParAnyNext)

InitDetect == DockerIdle /\ ExecInit /\ ParInit /\ DetInitWith({"A"}) /\ CacheIdle /\ ErrNone

SpecDetect ==
  InitDetect /\ [][DetNext]_vars

InitDetectAll == DockerIdle /\ ExecInit /\ ParInit /\ DetAllInitWith({"A"}) /\ CacheIdle /\ ErrNone

SpecDetectAll ==
  InitDetectAll /\ [][DetAllNext]_vars

\* the detector shared by two callers; d_raced is kept by the steps that
\* begin a call and that look the cache up
CacheFrame == UNCHANGED <<dockerVars, execVars, parVars, errVars>>

CacheStep(c) ==
  \/ /\ \E o \in DetectorOps, path \in Paths : detect_invoke(c, o, path)
     /\ d_raced' = FALSE
     /\ UNCHANGED <<d_stats, d_evicted, d_populated>>
     /\ CacheFrame
  \/ /\ detectWithScore_lookup(c)
     /\ d_raced' = (d_raced \/ raceBegins(c))
     /\ d_evicted' = expired(d_path[c])
     /\ UNCHANGED <<d_stats, d_populated>>
     /\ CacheFrame
  \/ /\ detectWithScore_read(c)
     /\ UNCHANGED cacheVars
     /\ CacheFrame
  \/ /\ detectWithScore_score(c)
     /\ UNCHANGED cacheVars
     /\ CacheFrame

CacheNext ==
  \/ \E c \in Callers : CacheStep(c)
  \/ clearCache /\ UNCHANGED cacheVars /\ CacheFrame
  \/ Clock /\ UNCHANGED cacheVars /\ CacheFrame
  \/ getCacheStats /\ CacheFrame

\* one caller; d_populated is kept by the step that writes the cache: the
\* write happens exactly when the scores returned are not empty
ServedStep(c) ==
  \/ /\ \E o \in DetectorOps, path \in Paths : detect_invoke(c, o, path)
     /\ UNCHANGED cacheVars
     /\ CacheFrame
  \/ /\ detectWithScore_lookup(c)
     /\ UNCHANGED cacheVars
     /\ CacheFrame
  \/ /\ detectWithScore_read(c)
     /\ UNCHANGED cacheVars
     /\ CacheFrame
  \/ /\ detectWithScore_score(c)
     /\ d_populated' = IF d_scores'[c] # <<>>
                       THEN [d_populated EXCEPT ![d_path[c]] = d_result'[c]]
                       ELSE d_populated
     /\ UNCHANGED <<d_stats, d_raced, d_evicted>>
     /\ CacheFrame

ServedNext ==
  \/ \E c \in Callers : ServedStep(c)
  \/ clearCache /\ UNCHANGED cacheVars /\ CacheFrame
  \/ Clock /\ UNCHANGED cacheVars /\ CacheFrame

InitServed == DockerIdle /\ ExecInit /\ ParInit /\ DetServedInit /\ ErrNone

SpecServed ==
  InitServed /\ [][ServedNext]_vars

InitCache == DockerIdle /\ ExecInit /\ ParInit /\ DetCacheInit /\ ErrNone

SpecCache ==
  InitCache /\ [][CacheNext]_vars

ErrFrame == UNCHANGED <<dockerVars, execVars, parVars, detVars, cacheVars>>

ErrNext ==
  \/ /\ serialize
     /\ ErrFrame
  \/ /\ deserialize
     /\ ErrFrame

InitError == DockerIdle /\ ExecInit /\ ParInit /\ DetNone /\ CacheIdle /\ ErrInit

SpecError ==
  InitError /\ [][ErrNext]_vars

(***************************************************************************)
(* Properties of DockerManager.setup                                       *)
(***************************************************************************)
\* the call of caller c has returned normally and no other actor touched the
\* engine since it began
ReturnedUndisturbed(c, o) ==
  /\ pc[c] = "done"
  /\ op[c] = o
  /\ outcome[c].kind = "returned"
  /\ startEpoch[c] = epoch

HasMutatingCommand(t) == \E i \in 1 .. Len(t) : t[i] \in MutatingCommands

\* C1: once setup() has returned without throwing, with no other actor
\* changing the engine, the image is built and the container is running (so
\* isContainerRunning, the precondition of exec, holds), whatever the initial
\* image and container state.
C1_SetupLeavesContainerRunning ==
  \A c \in Callers :
    ReturnedUndisturbed(c, "setup") => (imageBuilt /\ isContainerRunning)

\* C2: a setup() that immediately follows a successful setup(), with no
\* external change since the first one began, returns 'running' and issues no
\* build, run or start command.
C2_SetupIdempotent ==
  \A c \in Callers :
    ( /\ ReturnedUndisturbed(c, "setup")
      /\ prev[c].op = "setup"
      /\ prev[c].outcome.kind = "returned"
      /\ prev[c].epoch = epoch )
    => ( /\ outcome[c].value = "running"
         /\ ~HasMutatingCommand(trace[c]) )

(***************************************************************************)
(* Properties of DockerManager.start / stop / remove / getLogs / exec      *)
(***************************************************************************)
\* the call of caller c has ended, normally or not, and no other actor touched
\* the engine since it began
EndedUndisturbed(c, o) ==
  /\ pc[c] = "done"
  /\ op[c] = o
  /\ startEpoch[c] = epoch

Occurrences(t, e) == Cardinality({i \in 1 .. Len(t) : t[i] = e})

\* C15: start() on a container that does not exist invokes create() exactly
\* once: the call issues one `docker run` and no `docker start`, and when it
\* returns the container exists and is running.
C15_StartCreatesAbsentContainer ==
  \A c \in Callers :
    (EndedUndisturbed(c, "start") /\ startState[c].container = "absent")
    => ( /\ Occurrences(trace[c], "run") = 1
         /\ Occurrences(trace[c], "start") = 0
         /\ (outcome[c].kind = "returned")
              => (containerExists /\ isContainerRunning) )

C15_Witness ==
  \E c \in Callers :
    /\ ReturnedUndisturbed(c, "start")
    /\ startState[c].container = "absent"
    /\ Occurrences(trace[c], "run") = 1

\* the guard of a guarded operation held when the call began
GuardedNoOp(c) ==
  \/ op[c] = "start" /\ startState[c].isContainerRunning
  \/ op[c] = "stop" /\ ~startState[c].isContainerRunning
  \/ op[c] = "remove" /\ ~startState[c].containerExists

\* C16: start() while the container is running, stop() while it is not
\* running and remove() while it does not exist return normally, issue no
\* start, run, stop or rm command, and leave the engine state unchanged.
C16_GuardedOperationsAreNoOps ==
  \A c \in Callers :
    (pc[c] = "done" /\ startEpoch[c] = epoch /\ GuardedNoOp(c))
    => ( /\ outcome[c].kind = "returned"
         /\ ~HasMutatingCommand(trace[c])
         /\ engineUp = startState[c].engineUp
         /\ imageBuilt = startState[c].imageBuilt
         /\ container = startState[c].container )

C16_Witness ==
  \E c \in Callers :
    /\ ReturnedUndisturbed(c, "start")
    /\ startState[c].isContainerRunning
    /\ prev[c].op \in {"stop", "remove"}
    /\ ~HasMutatingCommand(prev[c].trace)

\* C17: stop(), remove(force) and getLogs() never propagate an exception,
\* whatever the outcome of the probe and of the stop, rm or logs command, and
\* getLogs returns "" whenever its command did not succeed.
C17_CleanupNeverThrows ==
  \A c \in Callers :
    (pc[c] = "done" /\ op[c] \in {"stop", "remove", "getLogs"})
    => ( /\ outcome[c].kind = "returned"
         /\ (op[c] = "getLogs" /\ outcome[c].dispatched # "ok")
              => outcome[c].value = "" )

\* a stop whose `docker stop` failed, after a getLogs whose command failed
C17_Witness ==
  \E c \in Callers :
    /\ ReturnedUndisturbed(c, "stop")
    /\ Occurrences(trace[c], "stop") = 1
    /\ container = "running"
    /\ prev[c].op = "getLogs"
    /\ prev[c].outcome.dispatched \in {"failed", "timeout"}

\* C18: exec() called while the container is not running throws
\* ContainerStartError with the reason "Container is not running" and
\* dispatches no `docker exec`.
C18_ExecRequiresRunning ==
  \A c \in Callers :
    (EndedUndisturbed(c, "exec") /\ ~startState[c].isContainerRunning)
    => ( /\ outcome[c].kind = "thrown"
         /\ outcome[c].value = "ContainerStartError"
         /\ outcome[c].reason = "Container is not running"
         /\ Occurrences(trace[c], "exec") = 0 )

C18_Witness ==
  \E c \in Callers :
    /\ EndedUndisturbed(c, "exec")
    /\ ~startState[c].isContainerRunning
    /\ outcome[c].kind = "thrown"

Defined(x) == x # None

\* C19: once the running check has passed, exec() never throws: for every
\* outcome of the dispatched command it returns a DockerExecResult whose
\* success, stdout, stderr, exitCode and duration are all defined, and success
\* is true exactly when the executor reported success.
C19_ExecAlwaysReturnsResult ==
  \A c \in Callers :
    (pc[c] = "done" /\ op[c] = "exec" /\ Occurrences(trace[c], "exec") = 1)
    => ( /\ outcome[c].kind = "returned"
         /\ outcome[c].result.success \in BOOLEAN
         /\ Defined(outcome[c].result.stdout)
         /\ Defined(outcome[c].result.stderr)
         /\ Defined(outcome[c].result.exitCode)
         /\ Defined(outcome[c].result.duration)
         /\ outcome[c].result.success = ExecutorResult(outcome[c].dispatched).success )

\* an exec whose command timed out (the error carries a null exit code) after
\* one whose command succeeded
C19_Witness ==
  \E c \in Callers :
    /\ pc[c] = "done"
    /\ op[c] = "exec"
    /\ outcome[c].dispatched = "timeout"
    /\ prev[c].op = "exec"
    /\ prev[c].outcome.dispatched = "ok"

\* C20: the result of exec() tells a dispatch-level failure (the container
\* could not be reached) from an inner command that ran and exited non-zero
\* by its success discriminant: the two results differ in `success`.
C20_DispatchFailureDistinguished ==
  \A c \in Callers :
    ( /\ pc[c] = "done"
      /\ op[c] = "exec"
      /\ outcome[c].dispatched = "unreachable"
      /\ prev[c].op = "exec"
      /\ prev[c].outcome.dispatched = "nonzero" )
    => outcome[c].result.success # prev[c].outcome.result.success

(***************************************************************************)
(* Properties of CommandExecutor.execute                                   *)
(***************************************************************************)
ErrorClasses == {"CommandExecutionError", "CommandNotFoundError",
                 "CommandTimeoutError", "CommandFailedError"}

IsEvent(e, kind) == e.ev = kind

Spawns == SelectSeq(x_log, LAMBDA e : IsEvent(e, "spawn"))

Settles == SelectSeq(x_log, LAMBDA e : IsEvent(e, "settle"))

CountBefore(i, kind) == Cardinality({j \in 1 .. (i - 1) : x_log[j].ev = kind})

\* C3: execute never throws or rejects; whatever the options and however the
\* process ends (exit 0, non-zero exit, spawn error, timeout), the promise
\* resolves to a success carrying data or a failure carrying an error.
C3_ExecuteNeverThrows ==
  /\ x_result.kind \in {"none", "success", "failure"}
  /\ (x_pc = "done") <=> (x_result.kind # "none")
  /\ (x_result.kind = "failure") => (x_result.error \in ErrorClasses)
  /\ (x_result.kind = "success") => (x_result.error = "none")

\* an execute call whose last attempt was ended by the timer has resolved
C3_Witness ==
  /\ x_pc = "done"
  /\ x_result.kind = "failure"
  /\ Len(Settles) >= 1
  /\ Settles[Len(Settles)].timer

\* C4: execute runs at most retries+1 attempts, one after the other; nothing
\* runs after a successful attempt, which ends the call; when every attempt
\* failed the failure carries the error class of the last attempt.
C4_AttemptsSequentialLastError ==
  /\ Len(Spawns) <= x_retries + 1
  /\ \A i \in 1 .. Len(x_log) :
       /\ (x_log[i].ev = "spawn")
            => (CountBefore(i, "settle") = CountBefore(i, "spawn"))
       /\ (x_log[i].ev = "settle" /\ x_log[i].class = "ok")
            => (i = Len(x_log) /\ x_pc = "done" /\ x_result.kind = "success")
  /\ (x_pc = "done" /\ x_result.kind = "failure" /\ Len(Settles) >= 1)
       => ( /\ Len(Settles) = x_retries + 1
            /\ x_result.error = Settles[Len(Settles)].class )

\* three attempts failed, the first and the last with different error classes
C4_Witness ==
  /\ x_pc = "done"
  /\ x_result.kind = "failure"
  /\ Len(Settles) = 3
  /\ Settles[1].class # Settles[3].class

\* C5: a successful execute reports attempts equal to the number of attempts
\* actually run (k failures then a success gives attempts = k+1).
C5_AttemptsReported ==
  (x_pc = "done" /\ x_result.kind = "success")
    => (x_result.attempts = Len(Spawns))

\* C6: an attempt whose process had not completed when the timer fired
\* resolves as a CommandTimeoutError, at most timeout + 100 ms after it began.
C6_TimerWinsIsTimeout ==
  /\ (x_pc = "attempt") => (x_elapsed <= x_timeout + TimeoutBuffer)
  /\ \A i \in 1 .. Len(x_log) :
       (x_log[i].ev = "settle" /\ x_log[i].timer)
         => (x_log[i].class = "CommandTimeoutError")

(***************************************************************************)
(* Properties of CommandExecutor.executeParallel                           *)
(***************************************************************************)
\* 0-based number of the group of concurrency consecutive commands holding k
GroupOf(k) == (k - 1) \div p_concurrency

\* C7: for concurrency c >= 1 the commands run in consecutive groups of c in
\* input order: never more than c are in flight, what is started is a prefix
\* of the list made of whole groups, and a command starts only after every
\* command of every earlier group has resolved.
C7_GroupsOfConcurrency ==
  (p_pc # "idle" /\ p_concurrency >= 1) =>
    /\ Cardinality(Inflight) <= p_concurrency
    /\ \A k \in p_started :
         /\ k \in 1 .. p_n
         /\ \A j \in 1 .. p_n :
              /\ (GroupOf(j) < GroupOf(k)) => (j \in p_snapshot[k])
              /\ (GroupOf(j) = GroupOf(k)) => (j \in p_started /\ j \notin p_snapshot[k])

\* a command of the second group is in flight after the first group of two
\* resolved
C7_Witness ==
  /\ p_pc = "await"
  /\ p_concurrency = 2
  /\ p_n = 3
  /\ Inflight = {3}
  /\ p_snapshot[3] = {1, 2}

RECURSIVE SumPriority(_, _)
SumPriority(patterns, indices) ==
  IF indices = {} THEN 0
  ELSE LET k == CHOOSE x \in indices : TRUE
       IN patterns[k].priority + SumPriority(patterns, indices \ {k})

MatchedIndices(path, patterns, pkg) ==
  {k \in 1 .. Len(patterns) : patternMatches(path, patterns[k], pkg)}

Catalogue == buildPatternList(d_custom)

QualifyingNames(path) ==
  LET all == scoreAll(path, Catalogue, readPackageJson(path))
  IN {Catalogue[i].name : i \in {k \in 1 .. Len(Catalogue) :
                                   meetsThreshold(all[k], Catalogue[k])}}

\* C10: detectWithScore returns exactly the profiles whose score reaches their
\* own threshold, sorted by score descending; detect returns the first of
\* them as value/confidence/evidence and the others as alternatives.
C10_DetectWithScoreReturnsAllQualifying ==
  \A c \in Callers :
    (d_pc[c] = "done") =>
      LET scores == d_scores[c]
      IN /\ {scores[i].framework : i \in 1 .. Len(scores)} = QualifyingNames(d_path[c])
         /\ Len(scores) = Cardinality(QualifyingNames(d_path[c]))
         /\ \A i \in 1 .. Len(scores) : \A j \in 1 .. Len(scores) :
              (i < j) => ~scoreGreater(scores[j], scores[i])
         /\ (d_op[c] = "detect" /\ scores # <<>>) =>
              /\ d_result[c].value = scores[1].framework
              /\ d_result[c].num = scores[1].num
              /\ d_result[c].den = scores[1].den
              /\ d_result[c].evidence = scores[1].evidence
              /\ Len(d_result[c].alternatives) = Len(scores) - 1
              /\ \A i \in 1 .. (Len(scores) - 1) :
                   d_result[c].alternatives[i].value = scores[i + 1].framework

\* C11: for a project directory with no package.json, whatever else it holds,
\* detect() returns value "Unknown" with confidence 0 (and does not throw).
C11_NoManifestIsUnknown ==
  \A c \in Callers :
    (d_pc[c] \in {"done", "thrown"} /\ d_op[c] = "detect"
     /\ manifestOf(d_path[c]) = "absent")
    => ( /\ d_pc[c] = "done"
         /\ d_result[c].value = "Unknown"
         /\ d_result[c].num = 0 )

\* the Next.js profile of the default catalogue and its dependency pattern
NextProfile == FRAMEWORK_PATTERNS[1]

\* C12: with the default catalogue, a manifest whose only dependency is
\* "next" in a project without any next.config.* file makes detect() return
\* "Next.js" with confidence at least (priority of the dependency pattern) /
\* (total priority of the Next.js profile), and "Vite + React" scores 0.
C12_NextDependencyAlone ==
  \A c \in Callers :
    ( /\ d_pc[c] = "done"
      /\ d_op[c] = "detect"
      /\ d_path[c] = "app"
      /\ d_custom = <<>>
      /\ d_manifest = "ok"
      /\ {n \in DepNames : d_deps[n] # "none"} = {"next"}
      /\ d_files = {} )
    => ( /\ d_result[c].value = "Next.js"
         /\ d_result[c].num * SumPriority(NextProfile.patterns, 1 .. Len(NextProfile.patterns))
              >= NextProfile.patterns[1].priority * d_result[c].den
         /\ \A i \in 1 .. Len(d_scored[c]) :
              (d_scored[c][i].framework = "Vite + React") => (d_scored[c][i].num = 0) )

\* what detectWithScore returns on a cache miss for a tree without manifest
AbsentScores(path) ==
  sortByScore(keepQualifying(scoreAll(path, Catalogue, NullPkg), Catalogue))

C14_SecondDetectWithinTtlIsCacheHit ==
  \A c \in Callers :
    ( /\ d_pc[c] = "done"
      /\ d_op[c] = "detect"
      /\ d_recent[c] )
    => d_probes[c] = 0

\* C21: a command that ran and exited with the non-zero code k makes execute
\* return a failure whose exitCode is k.  Stated for a call without retries
\* whose only attempt was rejected with exit code k, a stderr that names no
\* missing command, and before the timeout.
C21_NonZeroExitCodeReported ==
  (/\ x_pc = "done"
   /\ x_retries = 0
   /\ x_result.kind = "failure"
   /\ x_result.error = "CommandFailedError"
   /\ Len(x_log) = 2
   /\ x_log[2].ev = "settle"
   /\ x_log[2].code # 0)
    => x_result.exitCode = x_log[2].code

(***************************************************************************)
(* Properties of DockerManager: failures of setup, start and create        *)
(***************************************************************************)
\* C22: setup() with the engine unreachable throws
\* DockerDaemonUnavailableError; the reachability probe is the only engine
\* command of the call (no image probe, build, run or start) and no build
\* callback is invoked.
C22_SetupEngineUnreachable ==
  \A c \in Callers :
    (EndedUndisturbed(c, "setup") /\ ~startState[c].engineUp)
    => ( /\ outcome[c].kind = "thrown"
         /\ outcome[c].value = "DockerDaemonUnavailableError"
         /\ trace[c] = <<"info">> )

C22_Witness ==
  \E c \in Callers :
    /\ EndedUndisturbed(c, "setup")
    /\ ~startState[c].engineUp
    /\ startState[c].container = "stopped"
    /\ outcome[c].value = "DockerDaemonUnavailableError"

SetupStatuses == {"running", "started", "created", "built"}

\* C23: with the engine reachable and the image present, setup() returns
\* 'running' and issues no mutating command when the container is running;
\* issues exactly one start (and no run) and, when it returns, returns
\* 'started' when the container is stopped; issues exactly one run (and no
\* start) and, when it returns, returns 'created' when the container is
\* absent; it never builds; and every status setup() returns is one of
\* running, started, created, built.
C23_SetupStatusByContainerState ==
  \A c \in Callers :
    /\ (EndedUndisturbed(c, "setup") /\ startState[c].engineUp
                                     /\ startState[c].imageBuilt)
       => ( /\ Occurrences(trace[c], "build") = 0
            /\ (startState[c].container = "running")
                 => ( /\ outcome[c].kind = "returned"
                      /\ outcome[c].value = "running"
                      /\ ~HasMutatingCommand(trace[c]) )
            /\ (startState[c].container = "stopped")
                 => ( /\ Occurrences(trace[c], "start") = 1
                      /\ Occurrences(trace[c], "run") = 0
                      /\ (outcome[c].kind = "returned")
                           => outcome[c].value = "started" )
            /\ (startState[c].container = "absent")
                 => ( /\ Occurrences(trace[c], "run") = 1
                      /\ Occurrences(trace[c], "start") = 0
                      /\ (outcome[c].kind = "returned")
                           => outcome[c].value = "created" ) )
    /\ (pc[c] = "done" /\ op[c] = "setup" /\ outcome[c].kind = "returned")
       => outcome[c].value \in SetupStatuses

\* a setup that found a running container, after one that started it
C23_Witness ==
  \E c \in Callers :
    /\ ReturnedUndisturbed(c, "setup")
    /\ startState[c].container = "running"
    /\ outcome[c].value = "running"
    /\ prev[c].op = "setup"
    /\ prev[c].outcome.value = "started"

\* what the engine shows of a command of the call that failed, when no other
\* actor touched the engine
BuildFailed(c) == Occurrences(trace[c], "build") > 0 /\ ~isImageBuilt

StartFailed(c) == Occurrences(trace[c], "start") > 0 /\ ~isContainerRunning

CreateFailed(c) == Occurrences(trace[c], "run") > 0 /\ ~isContainerRunning

C25_CreateRefusesExistingContainer ==
  \A c \in Callers :
    (EndedUndisturbed(c, "create") /\ startState[c].containerExists)
    => ( /\ outcome[c].kind = "thrown"
         /\ outcome[c].value = "ContainerAlreadyExistsError"
         /\ Occurrences(trace[c], "run") = 0 )

C25_Witness ==
  \E c \in Callers :
    /\ EndedUndisturbed(c, "create")
    /\ startState[c].container = "stopped"
    /\ startState[c].engineUp
    /\ outcome[c].value = "ContainerAlreadyExistsError"


(***************************************************************************)
(* Properties of DaemonError                                               *)
(***************************************************************************)
\* C26: for every DaemonError e, DaemonError.fromJSON(e.toJSON()) has the
\* same name, message, code and context as e, also when e has a cause and
\* when e is an instance of a subclass.
C26_JsonRoundTrip ==
  (e_pc = "restored")
  => ( /\ e_restored.name = e_error.name
       /\ e_restored.message = e_error.message
       /\ e_restored.code = e_error.code
       /\ e_restored.context = e_error.context )

\* a subclass instance with an Error as its cause has made the round trip
C26_Witness ==
  /\ e_pc = "restored"
  /\ e_error.class = "ImageBuildError"
  /\ e_error.cause.is = "Error"
  /\ <<"buildPath", "override">> \in e_error.context


(***************************************************************************)
(* Properties of FrameworkDetector: excludes and the cache                 *)
(***************************************************************************)
\* the profiles of a catalogue that exclude a name the catalogue holds
Suppressed(patterns) ==
  LET names == {patterns[i].name : i \in 1 .. Len(patterns)}
  IN {patterns[i].name : i \in {k \in 1 .. Len(patterns) :
                                   patterns[k].excludes \cap names # {}}}

\* C27: a profile that declares excludes is never in the output of
\* detectWithScore or detect when one of the excluded names is a profile of
\* the catalogue being evaluated; with the default catalogue, which holds
\* Next.js, 'Vite + React' is never reported.
C27_ExcludesSuppressProfile ==
  \A c \in Callers :
    (d_pc[c] = "done" /\ d_op[c] \in DetectorOps)
    => ( /\ \A i \in 1 .. Len(d_scores[c]) :
              d_scores[c][i].framework \notin Suppressed(buildPatternList(d_custom))
         /\ d_result[c].value \notin Suppressed(buildPatternList(d_custom)) )


\* the cache lookup of caller c, as a step
LookupStep(c) == d_pc[c] = "lookup" /\ d_pc'[c] # "lookup"

\* the step serves the cached entry to caller c
Served(c) ==
  /\ d_pc'[c] = "done"
  /\ d_probes'[c] = 0
  /\ d_scores'[c] = << [framework |-> d_cache[d_path[c]].value,
                        num |-> d_cache[d_path[c]].num,
                        den |-> d_cache[d_path[c]].den,
                        evidence |-> d_cache[d_path[c]].evidence] >>

\* C28: a cache entry is served only while its age is at most cacheTtl (300000
\* ms unless the option is given): a read of an older entry deletes it, serves
\* nothing and sends detectWithScore on to probe the filesystem; a read of an
\* entry within the TTL serves it and leaves it in the cache.
C28_EntryServedOnlyWithinTtl ==
  [][ \A c \in Callers :
        LookupStep(c) =>
          LET entry == d_cache[d_path[c]]
              age == d_now - entry.timestamp
          IN /\ (entry.present /\ age <= d_cacheTtl)
                  => (Served(c) /\ d_cache' = d_cache)
             /\ (entry.present /\ age > d_cacheTtl)
                  => ( /\ d_cache'[d_path[c]] = NoEntry
                       /\ d_pc'[c] = "read"
                       /\ d_scores'[c] = <<>> )
             /\ (~entry.present) => (d_pc'[c] = "read" /\ d_cache' = d_cache)
    ]_vars

\* a call whose lookup found an expired entry has probed again and finished
C28_Witness ==
  \E c \in Callers :
    /\ d_evicted
    /\ d_pc[c] = "done"
    /\ d_probes[c] = 2
    /\ d_cacheTtl = MaxCacheTtl
    /\ d_cache[d_path[c]].present
    /\ d_cache[d_path[c]].timestamp > MaxCacheTtl

\* no key twice
Injective(seq) == \A i \in 1 .. Len(seq) : \A j \in 1 .. Len(seq) : (seq[i] = seq[j]) => (i = j)

\* C29: after any sequence of detect, detectWithScore and clearCache calls
\* getCacheStats() returns size equal to the number of keys and keys equal to
\* the paths stored at that moment, each once; right after clearCache() it
\* returns size 0 and no keys.
C29_CacheStatsMatchCache ==
  [][ /\ (d_stats' # d_stats)
           => ( /\ d_stats'.size = Len(d_stats'.keys)
                /\ {d_stats'.keys[i] : i \in 1 .. Len(d_stats'.keys)} = StoredPaths
                /\ Injective(d_stats'.keys) )
      /\ clearCache => (getCacheStats_result.size = 0 /\ getCacheStats_result.keys = <<>>)'
    ]_vars

\* getCacheStats reported an entry that has expired since and is still stored
C29_Witness ==
  /\ d_stats.size = 1
  /\ d_stats.n = 1
  /\ StoredPaths = {"lib"}
  /\ ~cacheHit("lib")

\* C30: two concurrent detectWithScore calls for the same path on a cold
\* cache both probe the filesystem; at the moment the second of them
\* finishes, the cache holds an entry for the path and it is the one that
\* call wrote.
C30_RaceLastWriterWins ==
  [][ \A c \in Callers : \A other \in Callers \ {c} :
        ( /\ d_raced
          /\ d_pc[c] = "score" /\ d_pc'[c] = "done"
          /\ d_pc[other] = "done"
          /\ d_op[c] = "detectWithScore" /\ d_op[other] = "detectWithScore"
          /\ d_path[other] = d_path[c] )
        => ( /\ d_probes'[c] = 2
             /\ d_probes[other] = 2
             /\ d_cache'[d_path[c]].present
             /\ d_cache'[d_path[c]].timestamp = d_now
             /\ d_scores'[c] # <<>>
             /\ d_cache'[d_path[c]].value = d_scores'[c][1].framework )
    ]_vars


(***************************************************************************)
(* Properties of FrameworkDetector: the results                            *)
(***************************************************************************)
\* a framework result: confidence num/den in [0,1], evidence when it is > 0
FrameworkResultOk(r) ==
  /\ r.den > 0
  /\ 0 <= r.num /\ r.num <= r.den
  /\ (r.num > 0) => (r.evidence # <<>>)

\* a category result: confidence in tenths
CategoryResultOk(r) ==
  /\ 0 <= r.tenths /\ r.tenths <= 10
  /\ (r.tenths > 0) => (r.evidence # <<>>)

Sleeps == SelectSeq(x_log, LAMBDA e : IsEvent(e, "sleep"))

C33_FirstRetryDelayIsRetryDelay ==
  \A i \in 1 .. Len(x_log) :
    (x_log[i].ev = "sleep" /\ x_log[i].n = 1) => (x_log[i].ms = x_retryDelay)


\* C34: failure classification is total with a fixed precedence: a stderr
\* with a 'not found'-like string gives command-not-found even when the
\* elapsed time is >= timeout; otherwise elapsed >= timeout gives timeout;
\* otherwise the failure is a non-zero-exit failure; every failed attempt gets
\* exactly one of the three classes.
C34_ClassificationPrecedence ==
  [][ (x_pc = "attempt" /\ x_pc' # "attempt"
       /\ x_log'[Len(x_log')].class # "ok")
      => LET settled == x_log'[Len(x_log')]
         IN /\ settled.class \in {"CommandNotFoundError", "CommandTimeoutError",
                                   "CommandFailedError"}
            /\ settled.notFound => (settled.class = "CommandNotFoundError")
            /\ (~settled.notFound /\ x_elapsed >= x_timeout)
                 => (settled.class = "CommandTimeoutError")
            /\ (~settled.notFound /\ x_elapsed < x_timeout)
                 => (settled.class = "CommandFailedError")
    ]_vars


(***************************************************************************)
(* Properties of CommandExecutor.executeParallel: the result               *)
(***************************************************************************)
\* the ids of the commands given
GivenIds == {p_ids[k] : k \in 1 .. p_n}

\* C35: for every executeParallel call, total equals the number of commands
\* given, success is true exactly when failed is 0, and successful + failed
\* equals the number of commands actually run; when stopOnError is false and
\* the command ids are distinct, successful + failed = total and results
\* holds exactly one entry per command id.
C35_ParallelResultCounts ==
  (p_pc = "done") =>
    /\ p_return.total = p_n
    /\ p_return.success <=> (p_return.failed = 0)
    /\ p_return.successful + p_return.failed = Cardinality(p_started)
    /\ p_return.successful = Cardinality({k \in p_started : p_outcome[k] = "ok"})
    /\ p_return.failed = Cardinality({k \in p_started : p_outcome[k] = "fail"})
    /\ (~p_stopOnError /\ Cardinality(GivenIds) = p_n)
         => ( /\ p_return.successful + p_return.failed = p_return.total
              /\ {id \in CommandIds : p_results[id] # "none"} = GivenIds )

\* a call with stopOnError ended after its first group; a call without it
\* would have run all three
C35_Witness ==
  /\ p_pc = "done"
  /\ p_stopOnError
  /\ p_n = 3
  /\ p_return.total = 3
  /\ p_return.failed = 1
  /\ p_return.successful = 1
  /\ ~p_return.success

\* C39: executeParallel terminates for every finite command list and every
\* value of concurrency, 0 and negative values included, given that each
\* individual execute resolves.
C39_ExecuteParallelTerminates == <>(p_pc = "done")


(***************************************************************************)
(* Properties of DockerManager.setup: the build callbacks                  *)
(***************************************************************************)
BuildCallbacks == {"onBuildStart", "onBuildComplete", "onBuildError"}

\* every b of the trace has an a before it
Precedes(t, a, b) ==
  \A j \in 1 .. Len(t) : t[j] = b => \E i \in 1 .. (j - 1) : t[i] = a

\* C36: in setup() with the image absent, onBuildStart is invoked before the
\* build command is issued, then exactly one of onBuildComplete (build
\* succeeded) or onBuildError (build failed, after which the build error is
\* rethrown) is invoked; onBuildError is invoked only when the build itself
\* failed, and no build callback is invoked when the image is already
\* present.
C36_BuildCallbacks ==
  \A c \in Callers :
    (pc[c] = "done" /\ op[c] = "setup")
    => ( /\ (Occurrences(trace[c], "build") > 0)
              => ( /\ Occurrences(trace[c], "onBuildStart") = 1
                   /\ Precedes(trace[c], "onBuildStart", "build")
                   /\ Precedes(trace[c], "build", "onBuildComplete")
                   /\ Precedes(trace[c], "build", "onBuildError")
                   /\ Occurrences(trace[c], "onBuildComplete")
                        + Occurrences(trace[c], "onBuildError") = 1 )
         /\ (Occurrences(trace[c], "onBuildComplete") > 0)
              => (outcome[c].kind = "returned" /\ outcome[c].value = "built")
         /\ (Occurrences(trace[c], "onBuildError") > 0)
              => ( /\ outcome[c].kind = "thrown"
                   /\ outcome[c].value = "ImageBuildError" )
         /\ (startEpoch[c] = epoch /\ startState[c].engineUp /\ startState[c].imageBuilt)
              => \A j \in 1 .. Len(trace[c]) : trace[c][j] \notin BuildCallbacks )

(***************************************************************************)
(* Properties of the error classes: codes                                  *)
(***************************************************************************)
\* C37: every concrete error subtype fixes its own code, as listed in the
\* error modules' code tables: command-not-found is COMMAND_002, timeout
\* COMMAND_003, non-zero exit COMMAND_004, cancelled COMMAND_006, and no two
\* distinct subtypes of one category share a code.
C37_SubtypeFixesItsCode ==
  (e_pc # "none" /\ e_error.class \in DOMAIN CommandCodeTable)
  => ( /\ e_error.code = CommandCodeTable[e_error.class]
       /\ \A other \in Errors :
            (other.class \in DOMAIN CommandCodeTable /\ other.class # e_error.class)
            => other.code # e_error.code )


(***************************************************************************)
(* Properties of FrameworkDetector.detect: calls answered from the cache   *)
(***************************************************************************)
\* C38: with an unchanged project tree, a detect() call answered from the
\* cache returns the same result as the call that populated the cache: equal
\* value, confidence, evidence and the same alternatives list.  Stated for
\* the entries written by a detect() call.
C38_CacheServedEqualsPopulating ==
  \A c \in Callers :
    ( /\ d_pc[c] = "done"
      /\ d_op[c] = "detect"
      /\ d_probes[c] = 0
      /\ d_populated[d_path[c]] # NoDetection )
    => ( /\ d_result[c].value = d_populated[d_path[c]].value
         /\ d_result[c].num = d_populated[d_path[c]].num
         /\ d_result[c].den = d_populated[d_path[c]].den
         /\ d_result[c].evidence = d_populated[d_path[c]].evidence
         /\ d_result[c].alternatives = d_populated[d_path[c]].alternatives )


(***************************************************************************)
(* Properties of DockerManager.setup and start: two concurrent calls       *)
(***************************************************************************)
\* both callers' calls have ended, and each began while the engine showed
\* the image and no container; the second therefore began before the first
\* had created the container
BothBeganOnAbsent ==
  \A c \in Callers :
    /\ pc[c] = "done"
    /\ op[c] \in ReadinessOps
    /\ startState[c].engineUp
    /\ startState[c].imageBuilt
    /\ startState[c].container = "absent"

\* C40: when two setup() (or start()) calls for the same container name run
\* concurrently on an absent container with the image present, at most one
\* `docker run` is issued to the engine and neither call throws.
C40_ConcurrentCallsRunOnce ==
  BothBeganOnAbsent
  => ( /\ Occurrences(trace["A"], "run") + Occurrences(trace["B"], "run") <= 1
       /\ \A c \in Callers : outcome[c].kind = "returned" )


====
